---- MODULE Spec2Model ----
(***************************************************************************)
(* Model of the Uniswap V4 swap-calldata encoder of uniswapv4-nextjs:      *)
(* currency normalisation, pool keys and path keys (poolUtils.ts), the     *)
(* single-hop and multi-hop action encoders (singleHopSwap.ts,             *)
(* multiHopSwap.ts) and their validation.                                  *)
(*                                                                         *)
(* The encoders are pure functions.  A behaviour of the model is one call: *)
(* Init picks the function and its arguments, the clock may advance, and   *)
(* the action of that function computes the result the code returns or     *)
(* the error it throws.                                                    *)
(* getBestQuote (quote.ts) and the swap of the form (SwapForm.tsx, the     *)
(* hook useSwap) talk to the quoter contract and to the wallet: they take  *)
(* one step per request, and the answers are chosen by the environment.    *)
(*                                                                         *)
(* Addresses.  An address string "0x" + 40 hex digits is the record        *)
(*   [hex |-> n, spelling |-> k]                                           *)
(* where n is the number formed by the first two bytes and the last byte   *)
(* of the address (\hC02AC2 for 0xC02a...6Cc2) and k tells the spelling    *)
(* of the hex letters apart: 0 is the all-lowercase spelling, 1 and 2 are  *)
(* mixed-case spellings found in the configuration.  On the configured     *)
(* addresses n is injective and ordered as the lowercased strings are, so  *)
(* `a.toLowerCase() < b.toLowerCase()` is a.hex < b.hex, and `===` is      *)
(* equality of records.                                                    *)
(***************************************************************************)
EXTENDS Integers, Sequences, FiniteSets, TLC

\* prev is the result of the earlier call of fn with args, and its time;
\* calls are the requests made so far to the outside world (quoter reads,
\* wallet transactions), in the order they were made; locals are the values
\* swap computed from the clock before its first request; hook is the React
\* state of a mounted hook and inflight its invocations that were started
VARIABLES pc, fn, args, now, res, prev, calls, locals, hook, inflight

vars == <<pc, fn, args, now, res, prev, calls, locals, hook, inflight>>

-----------------------------------------------------------------------------
(* Bounds of the model. *)

\* largest amount (amountIn, minAmountOut) a caller passes
MaxAmount == 1
\* largest clock value; deadlines range over 0 .. MaxTime + 1
MaxTime == 1
\* longest route passed to the multi-hop functions
MaxRouteLen == 3

-----------------------------------------------------------------------------
(* Strings of the Address type. *)

toLowerCase(a) == [a EXCEPT !.spelling = 0]

\* a < b on two lowercased address strings of equal length
StrLess(a, b) == a.hex < b.hex

\* src/src/lib/config/tokens.ts:5
NATIVE_ADDRESS == [hex |-> \hEEEEEE, spelling |-> 1]

\* src/src/lib/uniswap/poolUtils.ts:6
ZERO_ADDRESS == [hex |-> \h000000, spelling |-> 0]

Tok(address, chainId) == [address |-> address, chainId |-> chainId]

MAINNET_TOKENS ==
  [ETH  |-> Tok(NATIVE_ADDRESS, 1),
   WETH |-> Tok([hex |-> \hC02AC2, spelling |-> 1], 1),
   USDC |-> Tok([hex |-> \hA0B848, spelling |-> 1], 1),
   USDT |-> Tok([hex |-> \hDAC1C7, spelling |-> 1], 1),
   DAI  |-> Tok([hex |-> \h6B170F, spelling |-> 1], 1),
   WBTC |-> Tok([hex |-> \h226099, spelling |-> 1], 1)]

SEPOLIA_TOKENS ==
  [ETH  |-> Tok(NATIVE_ADDRESS, 11155111),
   WETH |-> Tok([hex |-> \hFFF914, spelling |-> 1], 11155111),
   USDC |-> Tok([hex |-> \h1C7D38, spelling |-> 1], 11155111),
   DAI  |-> Tok([hex |-> \h681974, spelling |-> 1], 11155111)]

OPTIMISM_TOKENS ==
  [ETH  |-> Tok(NATIVE_ADDRESS, 10),
   WETH |-> Tok([hex |-> \h420006, spelling |-> 0], 10),
   USDC |-> Tok([hex |-> \h7F5C07, spelling |-> 1], 10),
   USDT |-> Tok([hex |-> \h94B058, spelling |-> 1], 10),
   DAI  |-> Tok([hex |-> \hDA10A1, spelling |-> 1], 10),
   OP   |-> Tok([hex |-> \h420042, spelling |-> 0], 10)]

BASE_TOKENS ==
  [ETH   |-> Tok(NATIVE_ADDRESS, 8453),
   WETH  |-> Tok([hex |-> \h420006, spelling |-> 0], 8453),
   USDC  |-> Tok([hex |-> \h833513, spelling |-> 1], 8453),
   USDbC |-> Tok([hex |-> \hD9AACA, spelling |-> 1], 8453),
   DAI   |-> Tok([hex |-> \h50C5CB, spelling |-> 1], 8453)]

ARBITRUM_TOKENS ==
  [ETH  |-> Tok(NATIVE_ADDRESS, 42161),
   WETH |-> Tok([hex |-> \h82AFB1, spelling |-> 1], 42161),
   USDC |-> Tok([hex |-> \hAF8831, spelling |-> 1], 42161),
   USDT |-> Tok([hex |-> \hFD08B9, spelling |-> 1], 42161),
   DAI  |-> Tok([hex |-> \hDA10A1, spelling |-> 2], 42161),
   WBTC |-> Tok([hex |-> \h2F2A0F, spelling |-> 1], 42161),
   ARB  |-> Tok([hex |-> \h912C48, spelling |-> 1], 42161)]

getTokensByChainId(chainId) ==
  CASE chainId = 1        -> MAINNET_TOKENS
    [] chainId = 11155111 -> SEPOLIA_TOKENS
    [] chainId = 10       -> OPTIMISM_TOKENS
    [] chainId = 8453     -> BASE_TOKENS
    [] chainId = 42161    -> ARBITRUM_TOKENS
    [] OTHER              -> MAINNET_TOKENS

getCommonTokens(chainId) ==
  LET tokens == getTokensByChainId(chainId)
  IN  {tokens[s] : s \in DOMAIN tokens}

\* isNativeToken comparing the address as spelled with the lowercased constant
isNativeToken_caseSensitive(address) == address = toLowerCase(NATIVE_ADDRESS)

isNativeToken(address) == toLowerCase(address) = toLowerCase(NATIVE_ADDRESS)

getWETHAddress(chainId) == getTokensByChainId(chainId).WETH.address

-----------------------------------------------------------------------------
(* Fee tiers: src/src/types/swap.ts *)

FEE_AMOUNTS == [LOWEST |-> 100, LOW |-> 500, MEDIUM |-> 3000, HIGH |-> 10000]

TICK_SPACINGS == (100 :> 1) @@ (500 :> 10) @@ (3000 :> 60) @@ (10000 :> 200)

-----------------------------------------------------------------------------
(* poolUtils.ts *)

sortTokens(tokenA, tokenB) ==
  IF StrLess(toLowerCase(tokenA), toLowerCase(tokenB))
    THEN <<tokenA, tokenB>>
    ELSE <<tokenB, tokenA>>

getZeroForOne(tokenIn, tokenOut) ==
  LET currency0 == sortTokens(tokenIn, tokenOut)[1]
  IN  toLowerCase(tokenIn) = toLowerCase(currency0)

getPoolTokenAddress(token) ==
  IF isNativeToken(token.address)
    THEN getWETHAddress(token.chainId)
    ELSE token.address

getTickSpacing(fee) ==
  IF fee = FEE_AMOUNTS.LOWEST THEN TICK_SPACINGS[100]
  ELSE IF fee = FEE_AMOUNTS.LOW THEN TICK_SPACINGS[500]
  ELSE IF fee = FEE_AMOUNTS.MEDIUM THEN TICK_SPACINGS[3000]
  ELSE IF fee = FEE_AMOUNTS.HIGH THEN TICK_SPACINGS[10000]
  ELSE TICK_SPACINGS[3000]

\* hooks keeps its default, ZERO_ADDRESS, at every call site
createPoolKey(tokenIn, tokenOut, fee) ==
  LET tokenInAddress  == getPoolTokenAddress(tokenIn)
      tokenOutAddress == getPoolTokenAddress(tokenOut)
      sorted          == sortTokens(tokenInAddress, tokenOutAddress)
  IN  [currency0   |-> sorted[1],
       currency1   |-> sorted[2],
       fee         |-> fee,
       tickSpacing |-> getTickSpacing(fee),
       hooks       |-> ZERO_ADDRESS]

\* hooks and hookData keep their defaults
createPathKey(intermediateCurrency, fee) ==
  [intermediateCurrency |-> getPoolTokenAddress(intermediateCurrency),
   fee         |-> fee,
   tickSpacing |-> getTickSpacing(fee),
   hooks       |-> ZERO_ADDRESS,
   hookData    |-> "0x"]

-----------------------------------------------------------------------------
(* Results of a call: the value returned or the error thrown. *)

Ok(v) == [status |-> "ok", value |-> v]

Err(m) == [status |-> "error", error |-> m]

Pending == [status |-> "pending"]

-----------------------------------------------------------------------------
(* config/contracts.ts (src/unnamed/part_010) *)

MAINNET_CONTRACTS ==
  [quoter          |-> [hex |-> \h52F003, spelling |-> 1],
   universalRouter |-> [hex |-> \h66A9AF, spelling |-> 1],
   permit2         |-> [hex |-> \h0000A3, spelling |-> 1]]

SEPOLIA_CONTRACTS ==
  [quoter          |-> [hex |-> \h61B327, spelling |-> 1],
   universalRouter |-> [hex |-> \h3A9D8B, spelling |-> 1],
   permit2         |-> [hex |-> \h0000A3, spelling |-> 1]]

BASE_CONTRACTS ==
  [quoter          |-> [hex |-> \h0D5E8D, spelling |-> 1],
   universalRouter |-> [hex |-> \h6FF543, spelling |-> 1],
   permit2         |-> [hex |-> \h0000A3, spelling |-> 1]]

ARBITRUM_CONTRACTS ==
  [quoter          |-> [hex |-> \h3972C5, spelling |-> 1],
   universalRouter |-> [hex |-> \hA51AA3, spelling |-> 1],
   permit2         |-> [hex |-> \h0000A3, spelling |-> 1]]

getContractsByChainId(chainId) ==
  CASE chainId = 1        -> Ok(MAINNET_CONTRACTS)
    [] chainId = 11155111 -> Ok(SEPOLIA_CONTRACTS)
    [] chainId = 8453     -> Ok(BASE_CONTRACTS)
    [] chainId = 42161    -> Ok(ARBITRUM_CONTRACTS)
    [] OTHER              -> Err("Unsupported chain ID")

getUniversalRouterAddress(chainId) ==
  LET contracts == getContractsByChainId(chainId)
  IN  IF contracts.status = "ok"
        THEN Ok(contracts.value.universalRouter)
        ELSE contracts

getQuoterAddress(chainId) ==
  LET contracts == getContractsByChainId(chainId)
  IN  IF contracts.status = "ok"
        THEN Ok(contracts.value.quoter)
        ELSE contracts

getPermit2Address(chainId) ==
  LET contracts == getContractsByChainId(chainId)
  IN  IF contracts.status = "ok"
        THEN Ok(contracts.value.permit2)
        ELSE contracts

\* networkStatus.ts: the pool availability recorded for each network
NETWORK_STATUS ==
  [c \in {1, 11155111, 8453, 42161} |->
     CASE c = 1        -> [chainId |-> 1, name |-> "Ethereum Mainnet",
                           poolsAvailable |-> "good"]
       [] c = 11155111 -> [chainId |-> 11155111, name |-> "Sepolia",
                           poolsAvailable |-> "none"]
       [] c = 8453     -> [chainId |-> 8453, name |-> "Base",
                           poolsAvailable |-> "none"]
       [] c = 42161    -> [chainId |-> 42161, name |-> "Arbitrum",
                           poolsAvailable |-> "limited"]]

\* the null of `NETWORK_STATUS[chainId] || null`
Null == [chainId |-> 0, name |-> "null", poolsAvailable |-> "null"]

getNetworkStatus(chainId) ==
  IF chainId \in DOMAIN NETWORK_STATUS THEN NETWORK_STATUS[chainId] ELSE Null

-----------------------------------------------------------------------------
(* Opcodes.  The planner of @uniswap/v4-sdk writes the values of its      *)
(* Actions enum into the actions byte string; the source repeats them as   *)
(* the V4_* constants below.                                               *)

\* the swap-single opcode of the superseded constant table (part_001:45)
V4_SWAP_EXACT_IN_SINGLE_legacy == 0

V4_SWAP_EXACT_IN_SINGLE == 6

\* the multi-hop swap written with the opcode of line 10 of singleHopSwap.ts
V4_SWAP_EXACT_IN_single == 6

V4_SWAP_EXACT_IN == 7

\* the settle step written with the constant of line 11 of singleHopSwap.ts
V4_SETTLE_all == 12

V4_SETTLE == 11

V4_SETTLE_ALL == 12

V4_TAKE == 14

V4_TAKE_ALL == 15

\* the V4_SWAP command of the superseded constant table (part_001:44)
V4_SWAP_COMMAND_legacy == 0

V4_SWAP_COMMAND == 16

\* V4Planner.finalize(): ABI encoding of (bytes actions, bytes[] params),
\* one opcode byte and one parameter blob per action, in the order added
finalize(planner) ==
  [actions |-> [i \in 1..Len(planner) |-> planner[i].action],
   params  |-> [i \in 1..Len(planner) |-> planner[i].params]]

\* encodeFunctionData for UNIVERSAL_ROUTER_ABI.execute
encodeExecute(commands, inputs, deadline) ==
  [functionName |-> "execute",
   commands     |-> commands,
   inputs       |-> inputs,
   deadline     |-> deadline]

-----------------------------------------------------------------------------
(* singleHopSwap.ts *)

\* getV4Currency without the native case: the wrapped address for native
getV4Currency_wrapped(token) == getPoolTokenAddress(token)

getV4Currency(token) ==
  IF isNativeToken(token.address)
    THEN ZERO_ADDRESS
    ELSE getPoolTokenAddress(token)

\* the currency written into the PoolKey of the payload: address(0) when
\* the pool currency is the wrapped address of a native side of the pair
\* (=== on the address strings), the pool currency otherwise
poolKeyCurrency(currency, token0, token1) ==
  IF isNativeToken(token0.address) /\ currency = getPoolTokenAddress(token0)
    THEN ZERO_ADDRESS
  ELSE IF isNativeToken(token1.address) /\ currency = getPoolTokenAddress(token1)
    THEN ZERO_ADDRESS
  ELSE currency

\* the transaction the prepare functions return: the router address is
\* looked up first, then the encoder runs, then execute() is encoded and
\* the value is set
swapTransaction(tokenIn, amountIn, deadline, universalRouterAddress, encoded) ==
  IF universalRouterAddress.status = "error"
    THEN universalRouterAddress
  ELSE IF encoded.status = "error"
    THEN encoded
  ELSE Ok([to    |-> universalRouterAddress.value,
           data  |-> encodeExecute(encoded.value.commands,
                                   encoded.value.inputs,
                                   deadline),
           value |-> IF isNativeToken(tokenIn.address) THEN amountIn ELSE 0])

encodeV4SwapActions(params) ==
  LET tokenIn  == params.tokenIn
      tokenOut == params.tokenOut
      poolKey  == createPoolKey(tokenIn, tokenOut, FEE_AMOUNTS.MEDIUM)
      tokenInAddress  == getPoolTokenAddress(tokenIn)
      tokenOutAddress == getPoolTokenAddress(tokenOut)
      zeroForOne   == getZeroForOne(tokenInAddress, tokenOutAddress)
      currencyIn   == getV4Currency(tokenIn)
      currencyOut  == getV4Currency(tokenOut)
      takeCurrency == currencyOut
      poolKeyCurrency0 == poolKeyCurrency(poolKey.currency0, tokenIn, tokenOut)
      poolKeyCurrency1 == poolKeyCurrency(poolKey.currency1, tokenIn, tokenOut)
      planner ==
        << [action |-> V4_SWAP_EXACT_IN_SINGLE,
            params |-> [poolKey |-> [poolKey EXCEPT
                                       !.currency0 = poolKeyCurrency0,
                                       !.currency1 = poolKeyCurrency1],
                        zeroForOne       |-> zeroForOne,
                        amountIn         |-> params.amountIn,
                        amountOutMinimum |-> params.minAmountOut,
                        hookData         |-> "0x"]],
           [action |-> V4_SETTLE,
            params |-> [currency    |-> currencyIn,
                        amount      |-> params.amountIn,
                        payerIsUser |-> TRUE]],
           [action |-> V4_TAKE,
            params |-> [currency  |-> takeCurrency,
                        recipient |-> params.recipient,
                        amount    |-> 0]] >>
  IN  [commands |-> <<V4_SWAP_COMMAND>>,
       inputs   |-> <<finalize(planner)>>]

prepareSingleHopSwap(params) ==
  swapTransaction(params.tokenIn, params.amountIn, params.deadline,
                  getUniversalRouterAddress(params.chainId),
                  Ok(encodeV4SwapActions(params)))

\* src/unnamed/part_006: the encoder that writes the bytes itself, with
\* SETTLE_ALL and TAKE_ALL
encodeV4SwapActions_part006(params) ==
  LET tokenIn  == params.tokenIn
      tokenOut == params.tokenOut
      poolKey  == createPoolKey(tokenIn, tokenOut, FEE_AMOUNTS.MEDIUM)
      tokenInAddress  == getPoolTokenAddress(tokenIn)
      tokenOutAddress == getPoolTokenAddress(tokenOut)
      zeroForOne   == getZeroForOne(tokenInAddress, tokenOutAddress)
      currencyIn   == getV4Currency(tokenIn)
      currencyOut  == getV4Currency(tokenOut)
      takeCurrency == currencyOut
      poolKeyCurrency0 == poolKeyCurrency(poolKey.currency0, tokenIn, tokenOut)
      poolKeyCurrency1 == poolKeyCurrency(poolKey.currency1, tokenIn, tokenOut)
      actionIds == <<V4_SWAP_EXACT_IN_SINGLE, V4_SETTLE_ALL, V4_TAKE_ALL>>
      swapParams == [poolKey |-> [poolKey EXCEPT
                                    !.currency0 = poolKeyCurrency0,
                                    !.currency1 = poolKeyCurrency1],
                     zeroForOne       |-> zeroForOne,
                     amountIn         |-> params.amountIn,
                     amountOutMinimum |-> params.minAmountOut,
                     hookData         |-> "0x"]
      settleParams == [currency |-> currencyIn, amount |-> params.amountIn]
      takeParams   == [currency |-> takeCurrency, amount |-> params.minAmountOut]
      v4Input == [actions |-> actionIds,
                  params  |-> <<swapParams, settleParams, takeParams>>]
  IN  [commands |-> <<V4_SWAP_COMMAND>>,
       inputs   |-> <<v4Input>>]

prepareSingleHopSwap_part006(params) ==
  swapTransaction(params.tokenIn, params.amountIn, params.deadline,
                  getUniversalRouterAddress(params.chainId),
                  Ok(encodeV4SwapActions_part006(params)))

\* src/unnamed/part_008: the open-delta flag 2^255, written as the uint256
\* word the ABI encoder emits for it
\* the largest uint256 as the flag
CONTRACT_BALANCE_max ==
  "0xffffffffffffffffffffffffffffffffffffffffffffffffffffffffffffffff"
CONTRACT_BALANCE ==
  "0x8000000000000000000000000000000000000000000000000000000000000000"

\* abi.encode(bytes actions, bytes[] params) of the three-action list of
\* part_008, with the amounts of the settle-all and take-all steps
v4Input_part008(params, settleAmount, takeAmount) ==
  LET tokenIn  == params.tokenIn
      tokenOut == params.tokenOut
      poolKey  == createPoolKey(tokenIn, tokenOut, FEE_AMOUNTS.MEDIUM)
      tokenInAddress  == getPoolTokenAddress(tokenIn)
      tokenOutAddress == getPoolTokenAddress(tokenOut)
      zeroForOne  == getZeroForOne(tokenInAddress, tokenOutAddress)
      currencyIn  == getV4Currency(tokenIn)
      currencyOut == getV4Currency(tokenOut)
      poolKeyCurrency0 == poolKeyCurrency(poolKey.currency0, tokenIn, tokenOut)
      poolKeyCurrency1 == poolKeyCurrency(poolKey.currency1, tokenIn, tokenOut)
      actions == <<V4_SWAP_EXACT_IN_SINGLE, V4_SETTLE_ALL, V4_TAKE_ALL>>
      actionParams ==
        << [poolKey |-> [poolKey EXCEPT
                           !.currency0 = poolKeyCurrency0,
                           !.currency1 = poolKeyCurrency1],
            zeroForOne       |-> zeroForOne,
            amountIn         |-> params.amountIn,
            amountOutMinimum |-> params.minAmountOut,
            hookData         |-> "0x"],
           [currency |-> currencyIn, amount |-> settleAmount],
           [currency |-> currencyOut, amount |-> takeAmount] >>
  IN  [actions |-> actions, params |-> actionParams]

encodeV4SwapDirect(params) ==
  [commands |-> <<V4_SWAP_COMMAND>>,
   inputs   |-> <<v4Input_part008(params, params.amountIn, params.minAmountOut)>>]

encodeV4SwapWithContractBalance(params) ==
  [commands |-> <<V4_SWAP_COMMAND>>,
   inputs   |-> <<v4Input_part008(params, CONTRACT_BALANCE, CONTRACT_BALANCE)>>]

prepareSingleHopSwap_part008(params, useContractBalance) ==
  swapTransaction(params.tokenIn, params.amountIn, params.deadline,
                  getUniversalRouterAddress(params.chainId),
                  Ok(IF useContractBalance
                       THEN encodeV4SwapWithContractBalance(params)
                       ELSE encodeV4SwapDirect(params)))

\* executeSingleHopSwap going straight to prepareSingleHopSwap
executeSingleHopSwap_unchecked(params) == prepareSingleHopSwap(params)

executeSingleHopSwap(params) ==
  IF params.amountIn <= 0
    THEN Err("Amount in must be greater than 0")
  ELSE IF params.minAmountOut < 0
    THEN Err("Minimum amount out cannot be negative")
  ELSE IF params.tokenIn.chainId # params.tokenOut.chainId
    THEN Err("Tokens must be on the same chain")
  ELSE prepareSingleHopSwap(params)

\* t is Math.floor(Date.now() / 1000)
validateSingleHopSwapParams(params, t) ==
  IF params.amountIn <= 0
    THEN [valid |-> FALSE, error |-> "Amount in must be greater than 0"]
  ELSE IF params.minAmountOut < 0
    THEN [valid |-> FALSE, error |-> "Minimum amount out cannot be negative"]
  ELSE IF params.tokenIn.chainId # params.tokenOut.chainId
    THEN [valid |-> FALSE, error |-> "Tokens must be on the same chain"]
  ELSE IF toLowerCase(params.tokenIn.address) = toLowerCase(params.tokenOut.address)
    THEN [valid |-> FALSE, error |-> "Cannot swap a token for itself"]
  ELSE IF params.deadline <= t
    THEN [valid |-> FALSE, error |-> "Deadline has already passed"]
  ELSE [valid |-> TRUE]

-----------------------------------------------------------------------------
(* poolUtils.ts: routes *)

\* the loop of encodeRoutePath and of encodeMultihopExactInPath from hop i
\* on: the output currency of hop i is the pool currency that is not the
\* current input currency, replaced by address(0) in the path when
\* route[i + 1] is native
RECURSIVE PathKeysFrom(_, _, _, _)
PathKeysFrom(poolKeys, route, i, currentCurrencyIn) ==
  IF i > Len(poolKeys)
    THEN << >>
    ELSE
      LET currencyOut ==
            IF toLowerCase(currentCurrencyIn) = toLowerCase(poolKeys[i].currency0)
              THEN poolKeys[i].currency1
              ELSE poolKeys[i].currency0
          outputToken == route[i + 1]
          pathCurrency ==
            IF isNativeToken(outputToken.address)
              THEN ZERO_ADDRESS
              ELSE currencyOut
          pathKey == [intermediateCurrency |-> pathCurrency,
                      fee         |-> poolKeys[i].fee,
                      tickSpacing |-> poolKeys[i].tickSpacing,
                      hooks       |-> poolKeys[i].hooks,
                      hookData    |-> "0x"]
      IN  <<pathKey>> \o PathKeysFrom(poolKeys, route, i + 1, currencyOut)

\* fees is the optional fee list; a missing or zero entry means MEDIUM
encodeRoutePath(route, fees) ==
  IF Len(route) < 3
    THEN Err("Route must have at least 3 tokens for multi-hop")
    ELSE
      LET feeAt(i) == IF i <= Len(fees) /\ fees[i] # 0
                        THEN fees[i]
                        ELSE FEE_AMOUNTS.MEDIUM
          poolKeys == [i \in 1..(Len(route) - 1) |->
                         createPoolKey(route[i], route[i + 1], feeAt(i))]
      IN  Ok(PathKeysFrom(poolKeys, route, 1, getPoolTokenAddress(route[1])))

\* isValidTokenPair comparing the tokens' own addresses
isValidTokenPair_ownAddress(tokenA, tokenB) ==
  IF tokenA.chainId # tokenB.chainId
    THEN FALSE
    ELSE toLowerCase(tokenA.address) # toLowerCase(tokenB.address)

isValidTokenPair(tokenA, tokenB) ==
  IF tokenA.chainId # tokenB.chainId
    THEN FALSE
    ELSE toLowerCase(getPoolTokenAddress(tokenA))
           # toLowerCase(getPoolTokenAddress(tokenB))

isValidRoute(route) ==
  IF Len(route) < 2
    THEN FALSE
    ELSE \A i \in 1..Len(route) :
           /\ route[i].chainId = route[1].chainId
           /\ (i > 1 => isValidTokenPair(route[i - 1], route[i]))

-----------------------------------------------------------------------------
(* multiHopSwap.ts *)

\* viem's isAddress on the recipient string
isAddress(recipient) == recipient.kind = "address"

\* encodeMultihopExactInPath with its loop started one hop late
encodeMultihopExactInPath_skipFirst(poolKeys, currencyIn, route) ==
  PathKeysFrom(poolKeys, route, 2, currencyIn)

encodeMultihopExactInPath(poolKeys, currencyIn, route) ==
  PathKeysFrom(poolKeys, route, 1, currencyIn)

\* the pool keys encodeV4MultiHopActions builds, native sides as address(0)
MultiHopPoolKeys(route) ==
  [i \in 1..(Len(route) - 1) |->
     LET poolKey == createPoolKey(route[i], route[i + 1], FEE_AMOUNTS.MEDIUM)
         token0  == route[i]
         token1  == route[i + 1]
         poolKeyCurrency0 == poolKeyCurrency(poolKey.currency0, token0, token1)
         poolKeyCurrency1 == poolKeyCurrency(poolKey.currency1, token0, token1)
     IN  [poolKey EXCEPT !.currency0 = poolKeyCurrency0,
                         !.currency1 = poolKeyCurrency1]]

\* encodeV4MultiHopActions with a take step that names the recipient
encodeV4MultiHopActions_takeToRecipient(params) ==
  LET route == params.route
  IN  IF ~isAddress(params.recipient)
        THEN Err("Invalid recipient address")
      ELSE IF ~isValidRoute(route)
        THEN Err("Invalid route: tokens must be on same chain and adjacent tokens must be different")
      ELSE IF Len(route) < 3
        THEN Err("Multi-hop route must have at least 3 tokens")
      ELSE
        LET tokenIn     == route[1]
            tokenOut    == route[Len(route)]
            poolKeys    == MultiHopPoolKeys(route)
            currencyIn  == getV4Currency(tokenIn)
            currencyOut == getV4Currency(tokenOut)
            path        == encodeMultihopExactInPath(poolKeys, currencyIn, route)
            v4Planner ==
              << [action |-> V4_SWAP_EXACT_IN,
                  params |-> [currencyIn       |-> currencyIn,
                              path             |-> path,
                              amountIn         |-> params.amountIn,
                              amountOutMinimum |-> params.minAmountOut]],
                 [action |-> V4_SETTLE_ALL,
                  params |-> [currency |-> currencyIn,
                              amount   |-> params.amountIn]],
                 [action |-> V4_TAKE_ALL,
                  params |-> [currency  |-> currencyOut,
                              recipient |-> params.recipient,
                              amount    |-> params.minAmountOut]] >>
        IN  Ok([commands |-> <<V4_SWAP_COMMAND>>,
                inputs   |-> <<finalize(v4Planner)>>])
encodeV4MultiHopActions(params) ==
  LET route == params.route
  IN  IF ~isAddress(params.recipient)
        THEN Err("Invalid recipient address")
      ELSE IF ~isValidRoute(route)
        THEN Err("Invalid route: tokens must be on same chain and adjacent tokens must be different")
      ELSE IF Len(route) < 3
        THEN Err("Multi-hop route must have at least 3 tokens")
      ELSE
        LET tokenIn     == route[1]
            tokenOut    == route[Len(route)]
            poolKeys    == MultiHopPoolKeys(route)
            currencyIn  == getV4Currency(tokenIn)
            currencyOut == getV4Currency(tokenOut)
            path        == encodeMultihopExactInPath(poolKeys, currencyIn, route)
            v4Planner ==
              << [action |-> V4_SWAP_EXACT_IN,
                  params |-> [currencyIn       |-> currencyIn,
                              path             |-> path,
                              amountIn         |-> params.amountIn,
                              amountOutMinimum |-> params.minAmountOut]],
                 [action |-> V4_SETTLE_ALL,
                  params |-> [currency |-> currencyIn,
                              amount   |-> params.amountIn]],
                 [action |-> V4_TAKE_ALL,
                  params |-> [currency |-> currencyOut,
                              amount   |-> params.minAmountOut]] >>
        IN  Ok([commands |-> <<V4_SWAP_COMMAND>>,
                inputs   |-> <<finalize(v4Planner)>>])

\* validateMultiHopSwapParams checking the deadline before the recipient
\* (t is Math.floor(Date.now() / 1000))
validateMultiHopSwapParams_deadlineFirst(params, t) ==
  IF params.amountIn <= 0
    THEN [valid |-> FALSE, error |-> "Amount in must be greater than 0"]
  ELSE IF params.minAmountOut < 0
    THEN [valid |-> FALSE, error |-> "Minimum amount out cannot be negative"]
  ELSE IF Len(params.route) < 3
    THEN [valid |-> FALSE, error |-> "Multi-hop route must have at least 3 tokens (e.g., ETH -> USDC -> DAI)"]
  ELSE IF ~isValidRoute(params.route)
    THEN [valid |-> FALSE, error |-> "Invalid route: tokens must be on same chain and adjacent tokens must be different"]
  ELSE IF params.deadline <= t
    THEN [valid |-> FALSE, error |-> "Deadline has already passed"]
  ELSE IF ~isAddress(params.recipient)
    THEN [valid |-> FALSE, error |-> "Invalid recipient address"]
  ELSE [valid |-> TRUE]
validateMultiHopSwapParams(params, t) ==
  IF params.amountIn <= 0
    THEN [valid |-> FALSE, error |-> "Amount in must be greater than 0"]
  ELSE IF params.minAmountOut < 0
    THEN [valid |-> FALSE, error |-> "Minimum amount out cannot be negative"]
  ELSE IF Len(params.route) < 3
    THEN [valid |-> FALSE, error |-> "Multi-hop route must have at least 3 tokens (e.g., ETH -> USDC -> DAI)"]
  ELSE IF ~isValidRoute(params.route)
    THEN [valid |-> FALSE, error |-> "Invalid route: tokens must be on same chain and adjacent tokens must be different"]
  ELSE IF ~isAddress(params.recipient)
    THEN [valid |-> FALSE, error |-> "Invalid recipient address"]
  ELSE IF params.deadline <= t
    THEN [valid |-> FALSE, error |-> "Deadline has already passed"]
  ELSE [valid |-> TRUE]

\* prepareMultiHopSwap taking the deadline from the clock
prepareMultiHopSwap_deadlineFromClock(params, t) ==
  LET validation == validateMultiHopSwapParams(params, t)
  IN  IF ~validation.valid
        THEN Err("Invalid multi-hop swap parameters: " \o validation.error)
      ELSE swapTransaction(params.route[1], params.amountIn, t + 1,
                           getUniversalRouterAddress(params.chainId),
                           encodeV4MultiHopActions(params))

prepareMultiHopSwap(params, t) ==
  LET validation == validateMultiHopSwapParams(params, t)
  IN  IF ~validation.valid
        THEN Err("Invalid multi-hop swap parameters: " \o validation.error)
      ELSE swapTransaction(params.route[1], params.amountIn, params.deadline,
                           getUniversalRouterAddress(params.chainId),
                           encodeV4MultiHopActions(params))

\* src/unnamed/part_007: the payload of the encoder that writes the bytes
\* itself; pathKeys is the result of encodeRoutePath(route)
v4SwapInput_part007(params, pathKeys) ==
  LET route    == params.route
      tokenIn  == route[1]
      tokenOut == route[Len(route)]
      exactCurrency   == getPoolTokenAddress(tokenIn)
      tokenInAddress  == getPoolTokenAddress(tokenIn)
      tokenOutAddress == getPoolTokenAddress(tokenOut)
      actionsBytes == <<V4_SWAP_EXACT_IN, V4_SETTLE_ALL, V4_TAKE_ALL>>
      params_array ==
        << [currencyIn       |-> exactCurrency,
            path             |-> pathKeys.value,
            amountIn         |-> params.amountIn,
            amountOutMinimum |-> params.minAmountOut],
           [currency |-> tokenInAddress, amount |-> params.amountIn],
           [currency |-> tokenOutAddress, amount |-> params.minAmountOut] >>
  IN  IF pathKeys.status = "error"
        THEN pathKeys
        ELSE Ok([commands |-> <<V4_SWAP_COMMAND>>,
                 inputs   |-> << [actions |-> actionsBytes,
                                  params  |-> params_array] >>])

encodeV4MultiHopActions_part007(params) ==
  IF ~isValidRoute(params.route)
    THEN Err("Invalid route")
    ELSE v4SwapInput_part007(params, encodeRoutePath(params.route, << >>))

prepareMultiHopSwap_part007(params) ==
  IF ~isValidRoute(params.route)
    THEN Err("Invalid route")
    ELSE swapTransaction(params.route[1], params.amountIn, params.deadline,
                         getUniversalRouterAddress(params.chainId),
                         encodeV4MultiHopActions_part007(params))

\* the catch block of executeMultiHopSwap: an error of the try block is
\* thrown again with its message prefixed
rethrow(tx) ==
  IF tx.status = "error"
    THEN Err("Failed to prepare multi-hop swap: " \o tx.error)
    ELSE tx

executeMultiHopSwap(params, t) == rethrow(prepareMultiHopSwap(params, t))

-----------------------------------------------------------------------------
(* quote.ts: getBestQuote.  The quoter contract is outside the program: a  *)
(* read of it reverts or returns [amountOut, gasEstimate].                 *)

\* Double-precision arithmetic of `Math.floor(slippagePercent * 100)`.  A
\* slippage percentage is written with two decimals, and the number n of
\* its hundredths stands for the double nearest to n / 100 (29 for 0.29).
\* With 2^e <= n / 100 < 2^(e + 1) that double is M / 2^(52 - e), where M
\* is n * 2^(52 - e) / 100 rounded to the nearest integer, and r is the
\* remainder of that division.  The product by 100 is n - r / 2^(52 - e)
\* when M was rounded down; it is rounded to a double below n, whose floor
\* is n - 1, when r / 2^(52 - e) exceeds half the spacing of the doubles
\* below n, and to n or above otherwise.
RECURSIVE floorLog2(_)
floorLog2(x) == IF x < 2 THEN 0 ELSE 1 + floorLog2(x \div 2)

RECURSIVE pow2(_)
pow2(k) == IF k = 0 THEN 1 ELSE 2 * pow2(k - 1)

RECURSIVE pow2mod100(_)
pow2mod100(k) == IF k = 0 THEN 1 ELSE (2 * pow2mod100(k - 1)) % 100

\* the least k with n * 2^k >= 100
RECURSIVE doublingsTo100(_)
doublingsTo100(n) == IF n >= 100 THEN 0 ELSE 1 + doublingsTo100(2 * n)

\* e with 2^e <= n / 100 < 2^(e + 1), for n > 0
exponentOfHundredths(n) ==
  IF n >= 100 THEN floorLog2(n \div 100) ELSE 0 - doublingsTo100(n)

\* Math.floor(slippagePercent * 100) for the double nearest to n / 100
floorTimes100(n) ==
  IF n = 0 THEN 0
  ELSE
    LET e == exponentOfHundredths(n)
        r == ((n % 100) * pow2mod100(52 - e)) % 100
        halfSpacing ==
          IF n = pow2(floorLog2(n))
            THEN pow2(floorLog2(n) - e - 2)
            ELSE pow2(floorLog2(n) - e - 1)
    IN  IF 0 < r /\ r < 50 /\ r > halfSpacing THEN n - 1 ELSE n

\* a slippage whose product with 100 is not a finite double (NaN, Infinity,
\* and the numbers from about 1.8e306 on), written as the largest integer
NotFinite == 2147483647

\* useTokenBalance.ts: BigInt(slippageBps) throws a RangeError for a
\* slippageBps that is NaN or infinite
calculateMinAmountOutThrows(slippagePercent) == slippagePercent = NotFinite

\* useTokenBalance.ts, for the slippages for which it does not throw
calculateMinAmountOut(amountOut, slippagePercent) ==
  LET slippageBps == floorTimes100(slippagePercent)
      slippageAmount == (amountOut * slippageBps) \div 10000
  IN  amountOut - slippageAmount

\* the tiers in ascending order of fee
feeTiers_ascending ==
  << [fee |-> 100, tickSpacing |-> 1],
     [fee |-> 500, tickSpacing |-> 10],
     [fee |-> 3000, tickSpacing |-> 60],
     [fee |-> 10000, tickSpacing |-> 200] >>
\* the fee tiers of getBestQuote in the order the loop tries them
feeTiers ==
  << [fee |-> 3000, tickSpacing |-> 60],
     [fee |-> 500, tickSpacing |-> 10],
     [fee |-> 10000, tickSpacing |-> 200],
     [fee |-> 100, tickSpacing |-> 1] >>

\* the argument of quoteExactInputSingle for one fee tier
quoteExactInputSingle(params, fee, quoterAddress) ==
  [functionName |-> "quoteExactInputSingle",
   address      |-> quoterAddress,
   poolKey      |-> createPoolKey(params.tokenIn, params.tokenOut, fee),
   zeroForOne   |-> getZeroForOne(getPoolTokenAddress(params.tokenIn),
                                  getPoolTokenAddress(params.tokenOut)),
   exactAmount  |-> params.amountIn,
   hookData     |-> "0x"]

\* getMultiHopQuote: the argument of quoteExactInput for a route
quoteExactInput(route, amountIn) ==
  [functionName  |-> "quoteExactInput",
   exactCurrency |-> getPoolTokenAddress(route[1]),
   path          |-> encodeRoutePath(route, << >>),
   exactAmount   |-> amountIn]

\* `amountOut && amountOut > 0n` on the answer to a read
foundQuote(answer) == answer.status = "ok" /\ answer.amountOut > 0

\* the QuoteResult returned for the first positive answer (the formatted
\* strings and the constant price impact are left out)
quoteResult(params, answer) ==
  [amountOut    |-> answer.amountOut,
   minAmountOut |-> calculateMinAmountOut(answer.amountOut, params.slippage),
   route        |-> <<params.tokenIn, params.tokenOut>>,
   gasEstimate  |-> answer.gasEstimate]

\* the error thrown after the loop (the token symbols are left out)
noPoolsFound(chainId) ==
  LET networkStatus == getNetworkStatus(chainId)
  IN  IF networkStatus.poolsAvailable = "none"
        THEN Err("No pools found: network has NO V4 pools initialized")
      ELSE IF networkStatus.poolsAvailable = "limited"
        THEN Err("No pools found: network has limited V4 pools")
      ELSE Err("No pools found: liquidity may be limited")

-----------------------------------------------------------------------------
(* The hooks useSwap (src/src/types/swap.ts) and the form SwapForm.tsx.    *)
(* The wallet is outside the program: a request to it (writeContractAsync, *)
(* sendTransactionAsync) resolves when the wallet has sent the             *)
(* transaction, or rejects; the chain confirms a sent transaction later.   *)

\* `account` of a wallet that is not connected
NoAccount == [kind |-> "undefined", hex |-> 0, spelling |-> 0]

\* a token state that is null
NoToken == Tok([hex |-> 0, spelling |-> -1], 0)

\* a quote state that is null
NoQuote == [amountOut |-> 0, minAmountOut |-> 0]

\* formatting.ts.  The text of the amount field is the record of its kind
\* ("", "0", "0.0", "decimal" for any other decimal string, "exponent" for
\* a string in scientific notation such as "1e3") and of two readings of
\* the number it denotes in base units of the input token: floored is
\* Math.floor(parseFloat(text) * 10 ** decimals), and units is what
\* parseUnits makes of a decimal string, which rounds the digits beyond the
\* token's decimals.  Empty text is 0, and so is text that parseUnits does
\* not parse.
parseTokenAmount(amount) ==
  IF amount.text \in {"", ".", "exponent"} THEN 0 ELSE amount.units

\* `amountNum > 0` for amountNum = parseFloat(text)
parseFloatIsPositive(amount) == amount.text \in {"decimal", "exponent"}

\* useTokenBalance.ts
calculateDeadline(minutes, t) == t + minutes * 60

SwapType == [SINGLE_HOP |-> "single-hop", MULTI_HOP |-> "multi-hop"]

\* SwapForm.tsx: the disabled attribute of the swap button
isSwapDisabled(form) ==
  \/ form.account = NoAccount
  \/ form.tokenIn = NoToken
  \/ form.tokenOut = NoToken
  \/ form.amountIn.text = ""
  \/ form.amountIn.text = "0"
  \/ form.isQuoteLoading
  \/ form.isSwapLoading
  \/ form.quoteError
  \/ form.quote = NoQuote

\* SwapForm.tsx: the parameters handleSwap passes to swap; an undefined
\* route is the empty one
handleSwap(form) ==
  [tokenIn      |-> form.tokenIn,
   tokenOut     |-> form.tokenOut,
   amountIn     |-> parseTokenAmount(form.amountIn),
   minAmountOut |-> form.quote.minAmountOut,
   swapType     |-> form.swapType,
   route        |-> IF form.swapType = SwapType.MULTI_HOP
                      THEN form.route ELSE << >>,
   chainId      |-> form.chainId]

\* where swap stands after a step: it has ended with an error, or it waits
\* for the wallet to answer the request it has just made
failed(error) == [pc |-> "done", res |-> error, requests |-> << >>]

awaiting(position, request) ==
  [pc |-> position, res |-> Pending,
   requests |-> << [request |-> request, status |-> "requested"] >>]

\* approveToken up to the first request: the ERC-20 approve of Permit2
approveToken(token, amount, permit2Address, universalRouterAddress) ==
  IF permit2Address.status = "error"
    THEN failed(permit2Address)
  ELSE IF universalRouterAddress.status = "error"
    THEN failed(universalRouterAddress)
  ELSE awaiting("approveTx",
         [kind         |-> "writeContract",
          address      |-> token.address,
          functionName |-> "approve",
          args         |-> <<permit2Address.value, amount>>])

\* approveToken after the first request: the Permit2 approve of the router
\* with maxPermitAmount = 2^160 - 1 and the expiration computed before the
\* first request
approvePermit2(token, permit2Address, universalRouterAddress, expirationSeconds) ==
  awaiting("permitTx",
    [kind         |-> "writeContract",
     address      |-> permit2Address.value,
     functionName |-> "approve",
     args         |-> <<token.address, universalRouterAddress.value,
                        "0xffffffffffffffffffffffffffffffffffffffff",
                        expirationSeconds>>])

\* swap: the transaction of the swap type
prepareSwap(params, account, deadline, t) ==
  IF params.swapType = SwapType.MULTI_HOP /\ Len(params.route) >= 3
    THEN executeMultiHopSwap(
           [route        |-> params.route,
            amountIn     |-> params.amountIn,
            minAmountOut |-> params.minAmountOut,
            recipient    |-> account,
            deadline     |-> deadline,
            chainId      |-> params.chainId], t)
    ELSE executeSingleHopSwap(
           [tokenIn      |-> params.tokenIn,
            tokenOut     |-> params.tokenOut,
            amountIn     |-> params.amountIn,
            minAmountOut |-> params.minAmountOut,
            recipient    |-> account,
            deadline     |-> deadline,
            chainId      |-> params.chainId])

\* swap from the prepared transaction on: the request to send it
sendTransaction(tx) ==
  IF tx.status = "error"
    THEN failed(tx)
    ELSE awaiting("hash",
           [kind  |-> "sendTransaction",
            to    |-> tx.value.to,
            data  |-> tx.value.data,
            value |-> tx.value.value])

\* swap has returned to its caller and waits at `position` with no request
\* made
suspended(position) ==
  [pc |-> position, res |-> Pending, requests |-> << >>]

\* swap up to its first await: of checkApproval for a token that is not
\* native, of the prepared transaction for a native one.  First, a swap
\* that does not compare the wallet's chain with chainId.
swap_noChainCheck(params, account, chain, t) ==
  IF account = NoAccount
    THEN failed(Err("Please connect your wallet"))
  ELSE IF params.tokenIn = NoToken \/ params.tokenOut = NoToken
    THEN failed(Err("Please select tokens"))
  ELSE IF params.amountIn <= 0
    THEN failed(Err("Please enter an amount"))
  ELSE IF ~isNativeToken(params.tokenIn.address)
    THEN suspended("checkApproval")
  ELSE suspended("tx")

swap(params, account, chain, t) ==
  IF account = NoAccount
    THEN failed(Err("Please connect your wallet"))
  ELSE IF params.tokenIn = NoToken \/ params.tokenOut = NoToken
    THEN failed(Err("Please select tokens"))
  ELSE IF params.amountIn <= 0
    THEN failed(Err("Please enter an amount"))
  ELSE IF chain # params.chainId
    THEN failed(Err("Please switch to the correct network"))
  ELSE IF ~isNativeToken(params.tokenIn.address)
    THEN suspended("checkApproval")
  ELSE suspended("tx")

\* the local variables of a swap that has not begun or has thrown
NoLocals == [deadline |-> 0, expirationSeconds |-> 0, tx |-> Pending]

\* the local variables of a swap begun at t that stands at `next`: the
\* deadline, and for a native token the transaction prepared before the
\* await
swapLocals(next, params, account, t) ==
  IF next.pc = "done"
    THEN NoLocals
    ELSE [deadline          |-> calculateDeadline(20, t),
          expirationSeconds |-> 0,
          tx |-> IF next.pc = "tx"
                   THEN prepareSwap(params, account,
                                    calculateDeadline(20, t), t)
                   ELSE Pending]

\* approveToken called at t and standing at `next`: the expiration of the
\* Permit2 approve is computed before the first request
approveTokenLocals(variables, next, t) ==
  IF next.pc = "approveTx"
    THEN [variables EXCEPT !.expirationSeconds = t + 60 * 60 * 24 * 365]
    ELSE variables

\* the requests with the last one, which the wallet holds, marked
answered(requests, status) ==
  [requests EXCEPT ![Len(requests)].status = status]

-----------------------------------------------------------------------------
(* Inputs. *)

ChainIds == {1, 11155111, 10, 8453, 42161}

Tokens == UNION {getCommonTokens(c) : c \in ChainIds}

\* the four fee tiers and two numbers that are none of them
FeeInputs == {100, 500, 3000, 10000, 7, 0}

CreatePoolKeyArgs ==
  [tokenIn : Tokens, tokenOut : Tokens, fee : FeeInputs]

CreatePathKeyArgs == [intermediateCurrency : Tokens, fee : FeeInputs]

\* well-formed recipient addresses (the connected account)
Accounts ==
  {[kind |-> "address", hex |-> \hF39F66, spelling |-> 1],
   [kind |-> "address", hex |-> \h7099C8, spelling |-> 1]}

\* output tokens offered with an input token: the tokens of its chain and
\* two tokens of other chains
OutTokens(tokenIn) ==
  getCommonTokens(tokenIn.chainId) \cup {MAINNET_TOKENS.USDC, ARBITRUM_TOKENS.ETH}

SingleHopParams(amounts) ==
  UNION {
    {[tokenIn      |-> ti,
      tokenOut     |-> to,
      amountIn     |-> a,
      minAmountOut |-> m,
      recipient    |-> r,
      deadline     |-> d,
      chainId      |-> ti.chainId] :
        to \in OutTokens(ti), a \in amounts, m \in amounts,
        r \in Accounts, d \in 0..(MaxTime + 1)} :
    ti \in Tokens }

\* a recipient string that is not an address
MalformedRecipient == [kind |-> "malformed", hex |-> 0, spelling |-> 0]

\* route tokens: native, wrapped native, a token below and a token above the
\* wrapped-native address, and a token of another chain
RouteTokens ==
  {MAINNET_TOKENS.ETH, MAINNET_TOKENS.WETH, MAINNET_TOKENS.USDC,
   MAINNET_TOKENS.USDT, ARBITRUM_TOKENS.USDC}

Routes == UNION {[1..n -> RouteTokens] : n \in 1..MaxRouteLen}

MultiHopParams ==
  {[route        |-> rt,
    amountIn     |-> a,
    minAmountOut |-> m,
    recipient    |-> r,
    deadline     |-> d,
    chainId      |-> rt[1].chainId] :
      rt \in Routes, a \in -1..MaxAmount, m \in -1..MaxAmount,
      r \in Accounts \cup {MalformedRecipient}, d \in 0..(MaxTime + 1)}

\* multi-hop parameters the ABI encoder accepts
UintMultiHopParams ==
  {p \in MultiHopParams : p.amountIn >= 0 /\ p.minAmountOut >= 0}

\* fee lists passed to encodeRoutePath: none, one per hop, a short one
RouteFees == {<< >>, <<500, 10000, 100>>, <<7>>}

EncodeRoutePathArgs == [route : Routes, fees : RouteFees]

\* amounts a caller may pass to the validating entry points
Amounts == -1..MaxAmount

\* amounts the ABI encoder accepts as uint128
UintAmounts == 0..MaxAmount

\* arguments of part_008's prepareSingleHopSwap
PrepareSingleHopSwapArgs_part008 ==
  [params : SingleHopParams(UintAmounts), useContractBalance : BOOLEAN]

\* slippage settings of the form, in hundredths of a percent: 0.5 % and 50 %
Slippages == {50, 5000}

\* slippage settings from 0 % to 100 % in hundredths of a percent
SlippageSettings == {0, 1, 10, 29, 50, 58, 100, 300, 5000, 9999, 10000}

\* quoted amounts
QuotedAmounts == {0, 1, 345, 10000, 100000}

CalculateMinAmountOutArgs ==
  [amountOut : QuotedAmounts, slippagePercent : SlippageSettings]

\* token pairs quoted: native in, native out, wrapped native out, and pairs
\* of the chains without a quoter entry or without pools
QuotePairs ==
  {<<MAINNET_TOKENS.ETH, MAINNET_TOKENS.USDC>>,
   <<MAINNET_TOKENS.USDC, MAINNET_TOKENS.ETH>>,
   <<ARBITRUM_TOKENS.USDC, ARBITRUM_TOKENS.WETH>>,
   <<OPTIMISM_TOKENS.ETH, OPTIMISM_TOKENS.USDC>>,
   <<BASE_TOKENS.ETH, BASE_TOKENS.USDC>>}

QuoteParams ==
  {[tokenIn  |-> pair[1],
    tokenOut |-> pair[2],
    amountIn |-> a,
    slippage |-> s,
    chainId  |-> pair[1].chainId] :
      pair \in QuotePairs, a \in 1..MaxAmount,
      s \in Slippages \cup {NotFinite}}

\* what a read of the quoter may answer
QuoterAnswers ==
  {[status |-> "reverted", amountOut |-> 0, gasEstimate |-> 0]} \cup
  {[status |-> "ok", amountOut |-> n, gasEstimate |-> 0] : n \in 0..MaxAmount}

\* texts of the amount field: empty, "0", "0.0", decimal strings of a
\* positive number (of less than one base unit when floored is 0, with
\* digits beyond the decimals that round up when units is floored + 1), and
\* strings in scientific notation
AmountTexts ==
  {[text |-> "", units |-> 0, floored |-> 0],
   [text |-> "0", units |-> 0, floored |-> 0],
   [text |-> "0.0", units |-> 0, floored |-> 0]} \cup
  {[text |-> "decimal", units |-> n + up, floored |-> n] :
     n \in 0..MaxAmount, up \in {0, 1}} \cup
  {[text |-> "exponent", units |-> 0, floored |-> n] : n \in 1..MaxAmount}

\* states of useSwapQuote: idle, loading, failed, and a quote
QuoteStates ==
  {[quote |-> NoQuote, isQuoteLoading |-> FALSE, quoteError |-> FALSE],
   [quote |-> NoQuote, isQuoteLoading |-> TRUE, quoteError |-> FALSE],
   [quote |-> NoQuote, isQuoteLoading |-> FALSE, quoteError |-> TRUE]} \cup
  {[quote |-> [amountOut    |-> n,
               minAmountOut |-> calculateMinAmountOut(n, s)],
    isQuoteLoading |-> FALSE,
    quoteError |-> FALSE] : n \in 1..MaxAmount, s \in Slippages}

\* token selections on a chain: none yet, the default ETH/USDC, the flipped
\* pair and a pair of two ERC-20 tokens
FormPairs(chainId) ==
  {<<NoToken, NoToken>>,
   <<getTokensByChainId(chainId).ETH, getTokensByChainId(chainId).USDC>>,
   <<getTokensByChainId(chainId).USDC, getTokensByChainId(chainId).ETH>>,
   <<getTokensByChainId(chainId).USDC, getTokensByChainId(chainId).WETH>>}

\* states of the form before the button is pressed; chain is the chain id
\* of the wallet, 0 when it is undefined
SwapForms ==
  UNION {
    {[account        |-> a,
      chain          |-> w,
      chainId        |-> c,
      tokenIn        |-> pair[1],
      tokenOut       |-> pair[2],
      amountIn       |-> text,
      quote          |-> q.quote,
      isQuoteLoading |-> q.isQuoteLoading,
      quoteError     |-> q.quoteError,
      isSwapLoading  |-> FALSE,
      swapType       |-> st,
      route          |-> IF pair[1] = NoToken THEN << >> ELSE pair] :
        a \in {NoAccount, CHOOSE x \in Accounts : TRUE}, w \in {c, 0},
        pair \in FormPairs(c), text \in AmountTexts, q \in QuoteStates,
        st \in {SwapType.SINGLE_HOP, SwapType.MULTI_HOP}} :
    c \in ChainIds }

-----------------------------------------------------------------------------
(* The state machine. *)

\* no hook is mounted
NoHook == [isLoading |-> FALSE]

\* no earlier call
NoCall == [result |-> Pending, time |-> 0]

Init ==
  /\ pc = "call"
  /\ now = 0
  /\ res = Pending
  /\ prev = NoCall
  /\ calls = << >>
  /\ locals = NoLocals
  /\ hook = NoHook
  /\ inflight = << >>
  /\ \/ fn = "createPoolKey" /\ args \in CreatePoolKeyArgs
     \/ fn = "createPathKey" /\ args \in CreatePathKeyArgs
     \/ fn = "executeSingleHopSwap" /\ args \in SingleHopParams(Amounts)
     \/ fn = "prepareSingleHopSwap" /\ args \in SingleHopParams(UintAmounts)
     \/ fn = "prepareSingleHopSwap_part006" /\ args \in SingleHopParams(UintAmounts)
     \/ fn = "prepareSingleHopSwap_part008"
          /\ args \in PrepareSingleHopSwapArgs_part008
     \/ fn = "prepareMultiHopSwap_part007" /\ args \in UintMultiHopParams
     \/ fn = "validateSingleHopSwapParams" /\ args \in SingleHopParams(Amounts)
     \/ fn = "encodeRoutePath" /\ args \in EncodeRoutePathArgs
     \/ fn = "prepareMultiHopSwap" /\ args \in MultiHopParams
     \/ fn = "executeMultiHopSwap" /\ args \in MultiHopParams
     \/ fn = "validateMultiHopSwapParams" /\ args \in MultiHopParams
     \/ fn = "getBestQuote" /\ args \in QuoteParams
     \/ fn = "calculateMinAmountOut" /\ args \in CalculateMinAmountOutArgs
     \/ fn = "SwapForm" /\ args \in SwapForms

\* the clock advances while the call has not been made, while swap stands
\* at an await and while a hook is mounted
Tick ==
  /\ pc \in {"call", "checkApproval", "approveTx", "permitTx", "approved",
            "tx", "hash", "hook"}
  /\ now < MaxTime
  /\ now' = now + 1
  /\ UNCHANGED <<pc, fn, args, res, prev, calls, locals, hook, inflight>>

CallCreatePoolKey ==
  /\ pc = "call"
  /\ fn = "createPoolKey"
  /\ res' = Ok(createPoolKey(args.tokenIn, args.tokenOut, args.fee))
  /\ pc' = "done"
  /\ UNCHANGED <<fn, args, now, prev, calls, locals, hook, inflight>>

CallCreatePathKey ==
  /\ pc = "call"
  /\ fn = "createPathKey"
  /\ res' = Ok(createPathKey(args.intermediateCurrency, args.fee))
  /\ pc' = "done"
  /\ UNCHANGED <<fn, args, now, prev, calls, locals, hook, inflight>>

CallExecuteSingleHopSwap ==
  /\ pc = "call"
  /\ fn = "executeSingleHopSwap"
  /\ res' = executeSingleHopSwap(args)
  /\ pc' = "done"
  /\ UNCHANGED <<fn, args, now, prev, calls, locals, hook, inflight>>

CallPrepareSingleHopSwap ==
  /\ pc = "call"
  /\ fn = "prepareSingleHopSwap"
  /\ res' = prepareSingleHopSwap(args)
  /\ pc' = "done"
  /\ UNCHANGED <<fn, args, now, prev, calls, locals, hook, inflight>>

CallPrepareSingleHopSwap_part006 ==
  /\ pc = "call"
  /\ fn = "prepareSingleHopSwap_part006"
  /\ res' = prepareSingleHopSwap_part006(args)
  /\ pc' = "done"
  /\ UNCHANGED <<fn, args, now, prev, calls, locals, hook, inflight>>

CallPrepareSingleHopSwap_part008 ==
  /\ pc = "call"
  /\ fn = "prepareSingleHopSwap_part008"
  /\ res' = prepareSingleHopSwap_part008(args.params, args.useContractBalance)
  /\ pc' = "done"
  /\ UNCHANGED <<fn, args, now, prev, calls, locals, hook, inflight>>

CallPrepareMultiHopSwap_part007 ==
  /\ pc = "call"
  /\ fn = "prepareMultiHopSwap_part007"
  /\ res' = prepareMultiHopSwap_part007(args)
  /\ pc' = "done"
  /\ UNCHANGED <<fn, args, now, prev, calls, locals, hook, inflight>>

CallValidateSingleHopSwapParams ==
  /\ pc = "call"
  /\ fn = "validateSingleHopSwapParams"
  /\ res' = Ok(validateSingleHopSwapParams(args, now))
  /\ pc' = "done"
  /\ UNCHANGED <<fn, args, now, prev, calls, locals, hook, inflight>>

CallEncodeRoutePath ==
  /\ pc = "call"
  /\ fn = "encodeRoutePath"
  /\ res' = encodeRoutePath(args.route, args.fees)
  /\ pc' = "done"
  /\ UNCHANGED <<fn, args, now, prev, calls, locals, hook, inflight>>

CallPrepareMultiHopSwap ==
  /\ pc = "call"
  /\ fn = "prepareMultiHopSwap"
  /\ res' = prepareMultiHopSwap(args, now)
  /\ pc' = "done"
  /\ UNCHANGED <<fn, args, now, prev, calls, locals, hook, inflight>>

CallExecuteMultiHopSwap ==
  /\ pc = "call"
  /\ fn = "executeMultiHopSwap"
  /\ res' = executeMultiHopSwap(args, now)
  /\ pc' = "done"
  /\ UNCHANGED <<fn, args, now, prev, calls, locals, hook, inflight>>

CallValidateMultiHopSwapParams ==
  /\ pc = "call"
  /\ fn = "validateMultiHopSwapParams"
  /\ res' = Ok(validateMultiHopSwapParams(args, now))
  /\ pc' = "done"
  /\ UNCHANGED <<fn, args, now, prev, calls, locals, hook, inflight>>

CallCalculateMinAmountOut ==
  /\ pc = "call"
  /\ fn = "calculateMinAmountOut"
  /\ res' = IF calculateMinAmountOutThrows(args.slippagePercent)
              THEN Err("RangeError")
              ELSE Ok(calculateMinAmountOut(args.amountOut,
                                            args.slippagePercent))
  /\ pc' = "done"
  /\ UNCHANGED <<fn, args, now, prev, calls, locals, hook, inflight>>

\* one iteration of the loop of getBestQuote up to its await: the quoter is
\* read for the next fee tier
GetBestQuoteTier ==
  /\ pc = "call"
  /\ fn = "getBestQuote"
  /\ getQuoterAddress(args.chainId).status = "ok"
  /\ IF calls = << >> THEN TRUE ELSE calls[Len(calls)].answer # Pending
  /\ calls' = Append(calls,
       [request |-> quoteExactInputSingle(args,
                      feeTiers[Len(calls) + 1].fee,
                      getQuoterAddress(args.chainId).value),
        answer  |-> Pending])
  /\ UNCHANGED <<pc, fn, args, now, res, prev, locals, hook, inflight>>

\* the quoter answers the read: a positive answer is returned unless
\* calculateMinAmountOut throws, which the catch block of the loop takes as
\* a failed read; after the last tier the error is thrown
GetBestQuoteTierAnswered ==
  /\ pc = "call"
  /\ fn = "getBestQuote"
  /\ IF calls = << >> THEN FALSE ELSE calls[Len(calls)].answer = Pending
  /\ \E answer \in QuoterAnswers :
       /\ calls' = [calls EXCEPT ![Len(calls)].answer = answer]
       /\ IF foundQuote(answer) /\ ~calculateMinAmountOutThrows(args.slippage)
            THEN res' = Ok(quoteResult(args, answer)) /\ pc' = "done"
          ELSE IF Len(calls) = Len(feeTiers)
            THEN res' = noPoolsFound(args.chainId) /\ pc' = "done"
          ELSE UNCHANGED <<res, pc>>
  /\ UNCHANGED <<fn, args, now, prev, locals, hook, inflight>>

\* getBestQuote on a chain without a quoter address: getQuoterAddress throws
\* in every iteration before the read, and the loop ends without a read
GetBestQuoteNoQuoter ==
  /\ pc = "call"
  /\ fn = "getBestQuote"
  /\ getQuoterAddress(args.chainId).status = "error"
  /\ res' = noPoolsFound(args.chainId)
  /\ pc' = "done"
  /\ UNCHANGED <<fn, args, now, prev, calls, locals, hook, inflight>>

\* swap goes on to where `next` says, with its request made
Proceed(requests, next) ==
  /\ pc' = next.pc
  /\ res' = next.res
  /\ calls' = requests \o next.requests

\* the user presses the enabled swap button: handleSwap calls swap, which
\* runs up to its first await and returns to the handler
ClickSwap ==
  /\ pc = "call"
  /\ fn = "SwapForm"
  /\ ~isSwapDisabled(args)
  /\ Proceed(calls, swap(handleSwap(args), args.account, args.chain, now))
  /\ locals' = swapLocals(swap(handleSwap(args), args.account, args.chain,
                               now),
                          handleSwap(args), args.account, now)
  /\ UNCHANGED <<fn, args, now, prev, hook, inflight>>

\* checkApproval has answered false: swap calls approveToken, which
\* requests the ERC-20 approve of Permit2
ApprovalChecked ==
  /\ pc = "checkApproval"
  /\ Proceed(calls,
             approveToken(args.tokenIn, handleSwap(args).amountIn,
                          getPermit2Address(args.tokenIn.chainId),
                          getUniversalRouterAddress(args.chainId)))
  /\ locals' = approveTokenLocals(locals,
                  approveToken(args.tokenIn, handleSwap(args).amountIn,
                               getPermit2Address(args.tokenIn.chainId),
                               getUniversalRouterAddress(args.chainId)),
                  now)
  /\ UNCHANGED <<fn, args, now, prev, hook, inflight>>

\* the wallet has sent the ERC-20 approve: approveToken requests the Permit2
\* approve
ApproveTxSent ==
  /\ pc = "approveTx"
  /\ Proceed(answered(calls, "sent"),
             approvePermit2(args.tokenIn,
                            getPermit2Address(args.tokenIn.chainId),
                            getUniversalRouterAddress(args.chainId),
                            locals.expirationSeconds))
  /\ UNCHANGED <<fn, args, now, prev, locals, hook, inflight>>

\* the wallet has sent the Permit2 approve: approveToken returns
PermitTxSent ==
  /\ pc = "permitTx"
  /\ Proceed(answered(calls, "sent"), suspended("approved"))
  /\ UNCHANGED <<fn, args, now, prev, locals, hook, inflight>>

\* swap goes on after approveToken: it prepares the transaction with the
\* deadline computed when it began, and awaits it
TokenApproved ==
  /\ pc = "approved"
  /\ pc' = "tx"
  /\ locals' = [locals EXCEPT !.tx = prepareSwap(handleSwap(args),
                                                 args.account,
                                                 locals.deadline, now)]
  /\ UNCHANGED <<fn, args, now, res, prev, calls, hook, inflight>>

\* swap goes on with the prepared transaction: it requests its sending, or
\* ends with the error of the preparation
TransactionPrepared ==
  /\ pc = "tx"
  /\ Proceed(calls, sendTransaction(locals.tx))
  /\ UNCHANGED <<fn, args, now, prev, locals, hook, inflight>>

\* the wallet has sent the swap transaction: swap stores its hash
SwapTransactionSent ==
  /\ pc = "hash"
  /\ calls' = answered(calls, "sent")
  /\ res' = Ok("txHash")
  /\ pc' = "done"
  /\ UNCHANGED <<fn, args, now, prev, locals, hook, inflight>>

\* the wallet rejects the request it holds: swap ends with the error
WalletRejects ==
  /\ pc \in {"approveTx", "permitTx", "hash"}
  /\ calls' = answered(calls, "rejected")
  /\ res' = Err("User rejected the request")
  /\ pc' = "done"
  /\ UNCHANGED <<fn, args, now, prev, locals, hook, inflight>>

\* the chain confirms a transaction the wallet has sent
TransactionConfirmed ==
  /\ fn = "SwapForm"
  /\ \E i \in 1..Len(calls) :
       /\ calls[i].status = "sent"
       /\ calls' = [calls EXCEPT ![i].status = "confirmed"]
  /\ UNCHANGED <<pc, fn, args, now, res, prev, locals, hook, inflight>>

\* the caller prepares the same intent once more
PrepareAgain ==
  /\ pc = "done"
  /\ fn \in {"prepareSingleHopSwap", "prepareMultiHopSwap"}
  /\ prev = NoCall
  /\ prev' = [result |-> res, time |-> now]
  /\ res' = Pending
  /\ pc' = "call"
  /\ UNCHANGED <<fn, args, now, calls, locals, hook, inflight>>

Next ==
  \/ Tick
  \/ PrepareAgain
  \/ CallCreatePoolKey
  \/ CallCreatePathKey
  \/ CallExecuteSingleHopSwap
  \/ CallPrepareSingleHopSwap
  \/ CallPrepareSingleHopSwap_part006
  \/ CallPrepareSingleHopSwap_part008
  \/ CallPrepareMultiHopSwap_part007
  \/ CallValidateSingleHopSwapParams
  \/ CallEncodeRoutePath
  \/ CallPrepareMultiHopSwap
  \/ CallExecuteMultiHopSwap
  \/ CallValidateMultiHopSwapParams
  \/ CallCalculateMinAmountOut
  \/ GetBestQuoteTier
  \/ GetBestQuoteTierAnswered
  \/ GetBestQuoteNoQuoter
  \/ ClickSwap
  \/ ApprovalChecked
  \/ ApproveTxSent
  \/ PermitTxSent
  \/ TokenApproved
  \/ TransactionPrepared
  \/ SwapTransactionSent
  \/ WalletRejects
  \/ TransactionConfirmed

Spec == Init /\ [][Next]_vars

-----------------------------------------------------------------------------
(* The hooks of swap.ts as state machines of their own: hook is the React
   state of the mounted hook, args what the hook reads from its
   surroundings, and inflight the invocations of its asynchronous callback
   in the order they began. *)

\* the most invocations of a hook's callback in one behaviour
MaxInvocations == 2

\* useSwap: a null txHash, a null error, and the state useState gives
NoHash == [hash |-> 0]

NoError == [status |-> "null"]

useSwap == [txHash |-> NoHash, isLoading |-> FALSE, error |-> NoError]

\* useSwap: the state after swap has reset it and run to `next`, its first
\* await or its end in the catch and finally blocks
swapBegins(next) ==
  IF next.pc = "done"
    THEN [txHash |-> NoHash, isLoading |-> FALSE, error |-> next.res]
    ELSE [txHash |-> NoHash, isLoading |-> TRUE, error |-> NoError]

\* useSwap: the state after an invocation has gone on to `next`
swapGoesOn(state, next) ==
  IF next.pc = "done"
    THEN [state EXCEPT !.error = next.res, !.isLoading = FALSE]
    ELSE state

\* useSwapQuote: the state useState gives
useSwapQuote == [quote |-> NoQuote, isLoading |-> FALSE, error |-> NoError]

\* useSwapQuote: fetchQuote goes on to the fetch
hasQuotableInputs(inputs) ==
  /\ inputs.tokenIn # NoToken
  /\ inputs.tokenOut # NoToken
  /\ inputs.amountIn.text # ""
  /\ inputs.amountIn.text # "0"
  /\ parseFloatIsPositive(inputs.amountIn)

\* useSwapQuote: the state after fetchQuote has run up to its fetch
fetchQuoteBegins(state, inputs) ==
  IF hasQuotableInputs(inputs)
    THEN [quote |-> NoQuote, isLoading |-> TRUE, error |-> NoError]
    ELSE [state EXCEPT !.quote = NoQuote, !.error = NoError]

\* useSwapQuote: the state after the fetch has answered
fetchQuoteEnds(state, answer) ==
  IF answer.status = "ok"
    THEN [state EXCEPT !.quote = answer.value, !.isLoading = FALSE]
    ELSE [state EXCEPT !.error = answer, !.isLoading = FALSE]

\* useSwapQuote: what getBestQuote may answer for the inputs, amountIn being
\* Math.floor(parseFloat(text) * 10 ** decimals)
getBestQuoteOutcomes(inputs) ==
  {Ok(quoteResult([tokenIn  |-> inputs.tokenIn,
                   tokenOut |-> inputs.tokenOut,
                   amountIn |-> inputs.amountIn.floored,
                   slippage |-> inputs.slippage,
                   chainId  |-> inputs.chainId], answer)) :
     answer \in {a \in QuoterAnswers : foundQuote(a)}}
  \cup {noPoolsFound(inputs.chainId)}

\* what useAccount gives useSwap: the account and the wallet's chain
WalletStates ==
  [account : {NoAccount, CHOOSE x \in Accounts : TRUE}, chain : {1, 8453}]

\* parameters swap is invoked with, all for chain 1, with no amount and
\* with the smallest one
UseSwapParams ==
  {[tokenIn      |-> pair[1],
    tokenOut     |-> pair[2],
    amountIn     |-> a,
    minAmountOut |-> 0,
    swapType     |-> SwapType.SINGLE_HOP,
    route        |-> << >>,
    chainId      |-> 1] :
      pair \in {<<MAINNET_TOKENS.ETH, MAINNET_TOKENS.USDC>>,
                <<MAINNET_TOKENS.USDC, MAINNET_TOKENS.WETH>>,
                <<NoToken, MAINNET_TOKENS.USDC>>},
      a \in {0, 1}}

\* debounced texts of the amount: empty, "0.0", less than one base unit, and
\* one base unit
DebouncedAmounts ==
  {[text |-> "", units |-> 0, floored |-> 0],
   [text |-> "0.0", units |-> 0, floored |-> 0],
   [text |-> "decimal", units |-> 0, floored |-> 0],
   [text |-> "decimal", units |-> 1, floored |-> 1]}

\* parameters of useSwapQuote, amountIn being the debounced text
UseSwapQuoteParams ==
  {[tokenIn  |-> pair[1],
    tokenOut |-> pair[2],
    amountIn |-> text,
    slippage |-> 50,
    chainId  |-> 1,
    swapType |-> SwapType.SINGLE_HOP,
    route    |-> << >>] :
      pair \in {<<NoToken, NoToken>>,
                <<MAINNET_TOKENS.ETH, MAINNET_TOKENS.USDC>>,
                <<MAINNET_TOKENS.USDC, MAINNET_TOKENS.ETH>>},
      text \in DebouncedAmounts}

HookInit ==
  /\ pc = "hook"
  /\ now = 0
  /\ res = Pending
  /\ prev = NoCall
  /\ calls = << >>
  /\ locals = NoLocals
  /\ inflight = << >>
  /\ \/ fn = "useSwap" /\ args \in WalletStates /\ hook = useSwap
     \/ /\ fn = "useSwapQuote"
        /\ args \in {p \in UseSwapQuoteParams : p.amountIn.text = ""}
        /\ hook = useSwapQuote

\* an invocation of swap begins and runs to `next`, its first await or its
\* end
Invoke(params, next) ==
  /\ inflight' = Append(inflight,
                    [params |-> params,
                     pc     |-> next.pc,
                     calls  |-> next.requests,
                     locals |-> swapLocals(next, params, args.account, now)])
  /\ hook' = swapBegins(next)

\* invocation i of swap, with the requests and the local variables given,
\* goes on to `next`
Resume(i, requests, variables, next) ==
  /\ inflight' = [inflight EXCEPT ![i] =
                    [params |-> @.params,
                     pc     |-> next.pc,
                     calls  |-> requests \o next.requests,
                     locals |-> variables]]
  /\ hook' = swapGoesOn(hook, next)

\* invocation i calls approveToken, which stands at `next`
ResumeApproveToken(i, next) ==
  Resume(i, inflight[i].calls,
         approveTokenLocals(inflight[i].locals, next, now), next)

\* a component calls swap
SwapInvoked ==
  /\ fn = "useSwap"
  /\ Len(inflight) < MaxInvocations
  /\ \E params \in UseSwapParams :
       Invoke(params, swap(params, args.account, args.chain, now))
  /\ UNCHANGED <<pc, fn, args, now, res, prev, calls, locals>>

\* checkApproval has answered an invocation false: it calls approveToken,
\* which requests the ERC-20 approve
InvocationApprovalChecked ==
  /\ fn = "useSwap"
  /\ \E i \in 1..Len(inflight) :
       /\ inflight[i].pc = "checkApproval"
       /\ ResumeApproveToken(i,
            approveToken(
              inflight[i].params.tokenIn, inflight[i].params.amountIn,
              getPermit2Address(inflight[i].params.tokenIn.chainId),
              getUniversalRouterAddress(inflight[i].params.chainId)))
  /\ UNCHANGED <<pc, fn, args, now, res, prev, calls, locals>>

\* the wallet has sent the ERC-20 approve of an invocation
InvocationApproveTxSent ==
  /\ fn = "useSwap"
  /\ \E i \in 1..Len(inflight) :
       /\ inflight[i].pc = "approveTx"
       /\ Resume(i, answered(inflight[i].calls, "sent"), inflight[i].locals,
                 approvePermit2(
                   inflight[i].params.tokenIn,
                   getPermit2Address(inflight[i].params.tokenIn.chainId),
                   getUniversalRouterAddress(inflight[i].params.chainId),
                   inflight[i].locals.expirationSeconds))
  /\ UNCHANGED <<pc, fn, args, now, res, prev, calls, locals>>

\* the wallet has sent the Permit2 approve of an invocation: approveToken
\* returns
InvocationPermitTxSent ==
  /\ fn = "useSwap"
  /\ \E i \in 1..Len(inflight) :
       /\ inflight[i].pc = "permitTx"
       /\ Resume(i, answered(inflight[i].calls, "sent"), inflight[i].locals,
                 suspended("approved"))
  /\ UNCHANGED <<pc, fn, args, now, res, prev, calls, locals>>

\* an invocation goes on after approveToken: it prepares the transaction
\* and awaits it
InvocationTokenApproved ==
  /\ fn = "useSwap"
  /\ \E i \in 1..Len(inflight) :
       /\ inflight[i].pc = "approved"
       /\ Resume(i, inflight[i].calls,
                 [inflight[i].locals EXCEPT
                    !.tx = prepareSwap(inflight[i].params, args.account,
                                       inflight[i].locals.deadline, now)],
                 suspended("tx"))
  /\ UNCHANGED <<pc, fn, args, now, res, prev, calls, locals>>

\* an invocation goes on with the prepared transaction: it requests its
\* sending, or ends with the error of the preparation
InvocationTransactionPrepared ==
  /\ fn = "useSwap"
  /\ \E i \in 1..Len(inflight) :
       /\ inflight[i].pc = "tx"
       /\ Resume(i, inflight[i].calls, inflight[i].locals,
                 sendTransaction(inflight[i].locals.tx))
  /\ UNCHANGED <<pc, fn, args, now, res, prev, calls, locals>>

\* the wallet has sent the swap transaction of an invocation, which stores
\* the hash (the hash of invocation i is i)
InvocationTransactionSent ==
  /\ fn = "useSwap"
  /\ \E i \in 1..Len(inflight) :
       /\ inflight[i].pc = "hash"
       /\ inflight' = [inflight EXCEPT ![i].pc = "done",
                                       ![i].calls = answered(@, "sent")]
       /\ hook' = [hook EXCEPT !.txHash = [hash |-> i], !.isLoading = FALSE]
  /\ UNCHANGED <<pc, fn, args, now, res, prev, calls, locals>>

\* the wallet rejects the request of an invocation
InvocationWalletRejects ==
  /\ fn = "useSwap"
  /\ \E i \in 1..Len(inflight) :
       /\ inflight[i].pc \in {"approveTx", "permitTx", "hash"}
       /\ inflight' = [inflight EXCEPT ![i].pc = "done",
                                       ![i].calls = answered(@, "rejected")]
       /\ hook' = [hook EXCEPT !.error = Err("User rejected the request"),
                               !.isLoading = FALSE]
  /\ UNCHANGED <<pc, fn, args, now, res, prev, calls, locals>>

\* a parameter of useSwapQuote changes, and the effect runs fetchQuote
InputsChange ==
  /\ fn = "useSwapQuote"
  /\ \E inputs \in UseSwapQuoteParams \ {args} :
       /\ hasQuotableInputs(inputs) => Len(inflight) < MaxInvocations
       /\ args' = inputs
       /\ hook' = fetchQuoteBegins(hook, inputs)
       /\ inflight' = IF hasQuotableInputs(inputs)
                        THEN Append(inflight, [inputs |-> inputs,
                                               result |-> Pending])
                        ELSE inflight
  /\ UNCHANGED <<pc, fn, now, res, prev, calls, locals>>

\* a component calls refetch, which is fetchQuote, with the parameters
\* unchanged
Refetch ==
  /\ fn = "useSwapQuote"
  /\ hasQuotableInputs(args) => Len(inflight) < MaxInvocations
  /\ hook' = fetchQuoteBegins(hook, args)
  /\ inflight' = IF hasQuotableInputs(args)
                   THEN Append(inflight, [inputs |-> args,
                                          result |-> Pending])
                   ELSE inflight
  /\ UNCHANGED <<pc, fn, args, now, res, prev, calls, locals>>

\* the fetch of an invocation of fetchQuote answers
QuoteFetched ==
  /\ fn = "useSwapQuote"
  /\ \E i \in 1..Len(inflight) :
       /\ inflight[i].result = Pending
       /\ \E answer \in getBestQuoteOutcomes(inflight[i].inputs) :
            /\ inflight' = [inflight EXCEPT ![i].result = answer]
            /\ hook' = fetchQuoteEnds(hook, answer)
  /\ UNCHANGED <<pc, fn, args, now, res, prev, calls, locals>>

HookNext ==
  \/ Tick
  \/ SwapInvoked
  \/ InvocationApprovalChecked
  \/ InvocationApproveTxSent
  \/ InvocationPermitTxSent
  \/ InvocationTokenApproved
  \/ InvocationTransactionPrepared
  \/ InvocationTransactionSent
  \/ InvocationWalletRejects
  \/ InputsChange
  \/ Refetch
  \/ QuoteFetched

HookSpec == HookInit /\ [][HookNext]_vars

-----------------------------------------------------------------------------
(* Vocabulary of the properties.  The spec's normalized address of a token *)
(* is the all-zero sentinel for the native asset and the token's own       *)
(* address otherwise.                                                      *)

IsNativeAsset(token) == token.address.hex = NATIVE_ADDRESS.hex

NormalizedAddress(token) ==
  IF IsNativeAsset(token) THEN ZERO_ADDRESS ELSE token.address

SameAddress(a, b) == a.hex = b.hex

SingleHopFns ==
  {"executeSingleHopSwap", "prepareSingleHopSwap", "prepareSingleHopSwap_part006"}

MultiHopFns == {"prepareMultiHopSwap", "executeMultiHopSwap"}

\* the call has returned a transaction
Returned(fns) == pc = "done" /\ fn \in fns /\ res.status = "ok"

\* the (actions, params) payload of the returned transaction
Payload == res.value.data.inputs[1]

SwapStep == Payload.params[1]

SettleStep == Payload.params[2]

TakeStep == Payload.params[3]

\* two different tokens of one chain
DifferentTokensOneChain(a, b) ==
  a.chainId = b.chainId /\ ~SameAddress(a.address, b.address)

(* C1: in every single-hop payload for two different tokens of one chain   *)
(* the PoolKey of the swap-single step has currency0 < currency1, and when *)
(* tokenIn or tokenOut is native, currency0 is the zero sentinel and       *)
(* currency1 the other token.                                              *)
C1_PoolKeyAscending ==
  (Returned(SingleHopFns) /\ DifferentTokensOneChain(args.tokenIn, args.tokenOut))
    => LET pk == SwapStep.poolKey
       IN  /\ pk.currency0.hex < pk.currency1.hex
           /\ IsNativeAsset(args.tokenIn)
                => /\ pk.currency0 = ZERO_ADDRESS
                   /\ SameAddress(pk.currency1, args.tokenOut.address)
           /\ IsNativeAsset(args.tokenOut)
                => /\ pk.currency0 = ZERO_ADDRESS
                   /\ SameAddress(pk.currency1, args.tokenIn.address)

(* C2: in every single-hop payload for a valid pair (different tokens of   *)
(* one chain) zeroForOne is true iff the normalized input-token address is *)
(* the currency0 of the PoolKey encoded in the same step.                  *)
C2_ZeroForOneIffInputIsCurrency0 ==
  (Returned(SingleHopFns) /\ DifferentTokensOneChain(args.tokenIn, args.tokenOut))
    => (SwapStep.zeroForOne
          <=> SameAddress(NormalizedAddress(args.tokenIn), SwapStep.poolKey.currency0))

(* C3: in every payload of the single-hop and multi-hop encoders the       *)
(* settle step carries the normalized input-token address and the take     *)
(* step the normalized output-token address.                               *)
C3_SettleInputTakeOutput ==
  /\ Returned(SingleHopFns)
       => /\ SettleStep.currency = NormalizedAddress(args.tokenIn)
          /\ TakeStep.currency = NormalizedAddress(args.tokenOut)
  /\ Returned(MultiHopFns)
       => /\ SettleStep.currency = NormalizedAddress(args.route[1])
          /\ TakeStep.currency = NormalizedAddress(args.route[Len(args.route)])

\* a multi-hop payload from a token to the native asset, and the take step
\* targets the sentinel while the settle step targets the input token
C3_Witness ==
  /\ Returned(MultiHopFns)
  /\ ~IsNativeAsset(args.route[1])
  /\ IsNativeAsset(args.route[Len(args.route)])
  /\ TakeStep.currency = ZERO_ADDRESS
  /\ SettleStep.currency = args.route[1].address

\* the input token of the call
InputToken == IF fn \in SingleHopFns THEN args.tokenIn ELSE args.route[1]

(* C4: for every prepared swap the returned value equals                   *)
(* amountIn if and only if the input token is native, and is 0 for every   *)
(* non-native input token.                                                 *)
C4_ValueEqualsAmountIffNative ==
  Returned(SingleHopFns \cup MultiHopFns)
    => /\ (res.value.value = args.amountIn) <=> IsNativeAsset(InputToken)
       /\ ~IsNativeAsset(InputToken) => res.value.value = 0

(* What the code does: for every prepared swap the returned value is       *)
(* amountIn when the input token is native and 0 when it is not; so,       *)
(* whenever amountIn is not 0, value equals amountIn if and only if the    *)
(* input is native.  prepareSingleHopSwap encodes amountIn = 0.            *)
C4_ValueIsAmountWhenNativeElseZero ==
  Returned(SingleHopFns \cup MultiHopFns)
    => /\ res.value.value = IF IsNativeAsset(InputToken) THEN args.amountIn ELSE 0
       /\ args.amountIn # 0
            => ((res.value.value = args.amountIn) <=> IsNativeAsset(InputToken))

\* a prepared swap of a positive amount of the native asset carries it as value
C4_Witness ==
  /\ Returned({"prepareSingleHopSwap", "prepareMultiHopSwap"})
  /\ IsNativeAsset(InputToken)
  /\ args.amountIn > 0
  /\ res.value.value = args.amountIn

(* C5: every single-hop exact-input payload has exactly three actions, in  *)
(* the order swap-single (0x06), settle (0x0b) or settle-all (0x0c), take  *)
(* (0x0e) or take-all (0x0f), with one parameter blob each.                *)
C5_SwapThenSettleThenTake ==
  Returned(SingleHopFns)
    => /\ Len(Payload.actions) = 3
       /\ Len(Payload.params) = 3
       /\ Payload.actions[1] = 6
       /\ Payload.actions[2] \in {11, 12}
       /\ Payload.actions[3] \in {14, 15}

\* executeSingleHopSwap has returned the sequence swap-single, settle, take
C5_Witness ==
  /\ Returned({"executeSingleHopSwap"})
  /\ Payload.actions = <<6, 11, 14>>

DeadlineErrors ==
  {"Deadline has already passed",
   "Invalid multi-hop swap parameters: Deadline has already passed",
   "Failed to prepare multi-hop swap: Invalid multi-hop swap parameters: Deadline has already passed"}

(* C6: a swap intent whose deadline is at or before the current time is    *)
(* never encoded: executeSingleHopSwap and executeMultiHopSwap throw, and  *)
(* the error is the deadline error when the deadline is the intent's only  *)
(* defect.                                                                 *)
C6_ExpiredDeadlineRejected ==
  (pc = "done" /\ fn \in {"executeSingleHopSwap", "executeMultiHopSwap"}
     /\ args.deadline <= now)
    => /\ res.status = "error"
       /\ (fn = "executeSingleHopSwap"
             /\ validateSingleHopSwapParams([args EXCEPT !.deadline = now + 1], now).valid)
            => res.error \in DeadlineErrors
       /\ (fn = "executeMultiHopSwap"
             /\ validateMultiHopSwapParams([args EXCEPT !.deadline = now + 1], now).valid)
            => res.error \in DeadlineErrors

(* C7: executeSingleHopSwap never returns a transaction when tokenIn and   *)
(* tokenOut are the same token; it throws 'Cannot swap a token for itself' *)
(* when the amounts are acceptable.                                        *)
C7_SameTokenRejected ==
  (pc = "done" /\ fn = "executeSingleHopSwap"
     /\ args.tokenIn.chainId = args.tokenOut.chainId
     /\ SameAddress(args.tokenIn.address, args.tokenOut.address))
    => /\ res.status = "error"
       /\ (args.amountIn > 0 /\ args.minAmountOut >= 0)
            => res.error = "Cannot swap a token for itself"

FeeTiers == {100, 500, 3000, 10000}

\* the fee encodeRoutePath uses for hop i, as its caller sees it
RequestedFee(fees, i) ==
  IF i <= Len(fees) /\ fees[i] # 0 THEN fees[i] ELSE 3000

(* C8: building a PoolKey or PathKey with a fee outside {100, 500, 3000,   *)
(* 10000} fails with an unsupported-fee-tier error; the recognized tiers   *)
(* get the tick spacings 1, 10, 60, 200.                                   *)
C8_UnknownFeeTierFails ==
  /\ (pc = "done" /\ fn \in {"createPoolKey", "createPathKey"})
       => IF args.fee \in FeeTiers
            THEN /\ res.status = "ok"
                 /\ res.value.tickSpacing =
                      CASE args.fee = 100   -> 1
                        [] args.fee = 500   -> 10
                        [] args.fee = 3000  -> 60
                        [] args.fee = 10000 -> 200
            ELSE res.status = "error"
  /\ (pc = "done" /\ fn = "encodeRoutePath" /\ Len(args.route) >= 3
        /\ \E i \in 1..(Len(args.route) - 1) : RequestedFee(args.fees, i) \notin FeeTiers)
       => res.status = "error"

(* C9: for all pairs of different tokens (A, B) of one chain and every     *)
(* fee, createPoolKey(A, B, fee) equals createPoolKey(B, A, fee) field by  *)
(* field and its currency0 is strictly less than its currency1.            *)
C9_PoolKeySymmetricAndAscending ==
  (pc = "done" /\ fn = "createPoolKey"
     /\ DifferentTokensOneChain(args.tokenIn, args.tokenOut))
    => /\ res.value = createPoolKey(args.tokenOut, args.tokenIn, args.fee)
       /\ res.value.currency0.hex < res.value.currency1.hex

\* path has one PathKey per hop of route, each with the normalized address
\* of the hop's output token
PathFollowsRoute(path, route) ==
  /\ Len(path) = Len(route) - 1
  /\ \A i \in 1..Len(path) :
       path[i].intermediateCurrency = NormalizedAddress(route[i + 1])

(* C10: for every valid route of N >= 3 tokens, encodeRoutePath and        *)
(* encodeMultihopExactInPath (as the multi-hop encoder calls it) return    *)
(* N - 1 PathKeys, the i-th with the address of route[i + 1], the zero     *)
(* sentinel when that token is native.                                     *)
C10_PathKeysFollowRoute ==
  /\ (pc = "done" /\ fn = "encodeRoutePath"
        /\ Len(args.route) >= 3 /\ isValidRoute(args.route))
       => /\ res.status = "ok"
          /\ PathFollowsRoute(res.value, args.route)
  /\ Returned(MultiHopFns)
       => /\ Len(args.route) >= 3
          /\ PathFollowsRoute(SwapStep.path, args.route)

\* a multi-hop payload whose route passes through the native asset
C10_Witness ==
  /\ Returned(MultiHopFns)
  /\ Len(args.route) >= 3
  /\ IsNativeAsset(args.route[2])
  /\ ~IsNativeAsset(args.route[3])
  /\ SwapStep.path[1].intermediateCurrency = ZERO_ADDRESS
  /\ SwapStep.path[2].intermediateCurrency = args.route[3].address

\* the chain's wrapped-native token
IsWrappedNative(token) ==
  token.address.hex = getWETHAddress(token.chainId).hex

\* the same token, native and wrapped native counting as the same
IdenticalTokens(a, b) ==
  /\ a.chainId = b.chainId
  /\ \/ SameAddress(a.address, b.address)
     \/ IsNativeAsset(a) /\ IsWrappedNative(b)
     \/ IsWrappedNative(a) /\ IsNativeAsset(b)

\* a route the spec calls invalid
InvalidRoute(route) ==
  \/ Len(route) < 3
  \/ \E i \in 1..(Len(route) - 1) : IdenticalTokens(route[i], route[i + 1])
  \/ \E i \in 1..Len(route) : route[i].chainId # route[1].chainId

\* s as prepareMultiHopSwap and executeMultiHopSwap throw it
Thrown(s) ==
  {"Invalid multi-hop swap parameters: " \o s,
   "Failed to prepare multi-hop swap: Invalid multi-hop swap parameters: " \o s}

RouteErrors ==
  Thrown("Multi-hop route must have at least 3 tokens (e.g., ETH -> USDC -> DAI)")
    \cup Thrown("Invalid route: tokens must be on same chain and adjacent tokens must be different")

(* C11 as stated: a multi-hop request whose route has fewer than 3 tokens, *)
(* two identical adjacent tokens (native and wrapped native counting as    *)
(* identical) or tokens of more than one chain is rejected with an         *)
(* invalid-route error, and no transaction is returned.                    *)
C11_InvalidRouteErrorAlways ==
  (pc = "done" /\ fn \in MultiHopFns /\ InvalidRoute(args.route))
    => /\ res.status = "error"
       /\ res.error \in RouteErrors

(* C11 amended: a multi-hop request whose route has fewer than 3 tokens,   *)
(* two identical adjacent tokens (native and wrapped native counting as    *)
(* identical) or tokens of more than one chain returns no transaction; it  *)
(* throws, and the error is an invalid-route error when the amounts are    *)
(* acceptable (amountIn > 0 and minAmountOut >= 0), the checks of the      *)
(* amounts coming before those of the route.                               *)
C11_InvalidRouteRejected ==
  (pc = "done" /\ fn \in MultiHopFns /\ InvalidRoute(args.route))
    => /\ res.status = "error"
       /\ (args.amountIn > 0 /\ args.minAmountOut >= 0)
            => res.error \in RouteErrors

\* a three-token route with the native asset next to its wrapped token has
\* been rejected as an invalid route
C11_Witness ==
  /\ pc = "done"
  /\ fn = "prepareMultiHopSwap"
  /\ Len(args.route) = 3
  /\ IsNativeAsset(args.route[2])
  /\ IsWrappedNative(args.route[3])
  /\ ~IdenticalTokens(args.route[1], args.route[2])
  /\ args.amountIn > 0
  /\ args.minAmountOut >= 0
  /\ res.status = "error"
  /\ res.error \in RouteErrors

SingleHopValidationErrors ==
  {"Amount in must be greater than 0",
   "Minimum amount out cannot be negative",
   "Tokens must be on the same chain"}

MultiHopValidationErrors ==
  Thrown("Amount in must be greater than 0")
    \cup Thrown("Minimum amount out cannot be negative")
    \cup RouteErrors

(* C12: executeSingleHopSwap and executeMultiHopSwap return no transaction *)
(* when amountIn <= 0, minAmountOut < 0 or the tokens are on different     *)
(* chains; the error thrown is the one of the validation, so nothing has   *)
(* been looked up or encoded before it.                                    *)
C12_InvalidInputsRejectedFirst ==
  /\ (pc = "done" /\ fn = "executeSingleHopSwap"
        /\ (\/ args.amountIn <= 0
            \/ args.minAmountOut < 0
            \/ args.tokenIn.chainId # args.tokenOut.chainId))
       => /\ res.status = "error"
          /\ res.error \in SingleHopValidationErrors
  /\ (pc = "done" /\ fn = "executeMultiHopSwap"
        /\ (\/ args.amountIn <= 0
            \/ args.minAmountOut < 0
            \/ \E i \in 1..Len(args.route) :
                 args.route[i].chainId # args.route[1].chainId))
       => /\ res.status = "error"
          /\ res.error \in MultiHopValidationErrors

\* a zero amount on a chain without a configured router has been rejected
\* for the amount
C12_Witness ==
  /\ pc = "done"
  /\ fn = "executeSingleHopSwap"
  /\ args.amountIn = 0
  /\ getUniversalRouterAddress(args.chainId).status = "error"
  /\ res = Err("Amount in must be greater than 0")

\* every function that returns an encoded transaction
EncoderFns ==
  SingleHopFns \cup MultiHopFns
    \cup {"prepareSingleHopSwap_part008", "prepareMultiHopSwap_part007"}

(* C13: every payload the encoders produce, single-hop or multi-hop and in *)
(* every encoding variant, has a commands string of exactly one byte,      *)
(* 0x10, and an inputs list of exactly one element.                        *)
C13_OneV4SwapCommand ==
  Returned(EncoderFns)
    => /\ res.value.data.commands = <<16>>
       /\ Len(res.value.data.inputs) = 1

\* the direct encoder of part_008 has returned a payload with the one
\* command 0x10
C13_Witness ==
  /\ Returned({"prepareSingleHopSwap_part008"})
  /\ ~args.useContractBalance
  /\ res.value.data.commands = <<16>>
  /\ Len(res.value.data.inputs) = 1

(* C14: preparing the same swap intent twice yields the same {to, data,  *)
(* value}: whenever both calls of prepareSingleHopSwap or                  *)
(* prepareMultiHopSwap return a transaction the two transactions are       *)
(* equal, whatever the time of either call, and prepareSingleHopSwap,      *)
(* which does not read the clock, returns or throws the same both times.   *)
C14_SameIntentSameTransaction ==
  (pc = "done" /\ prev # NoCall)
    => /\ (prev.result.status = "ok" /\ res.status = "ok")
            => res.value = prev.result.value
       /\ fn = "prepareSingleHopSwap" => res = prev.result

\* a multi-hop intent has been prepared at two different times, with a
\* transaction returned both times
C14_Witness ==
  /\ pc = "done"
  /\ fn = "prepareMultiHopSwap"
  /\ prev.result.status = "ok"
  /\ res.status = "ok"
  /\ prev.time < now

\* the multi-hop encoders of multiHopSwap.ts and of part_007
MultiHopEncoderFns == MultiHopFns \cup {"prepareMultiHopSwap_part007"}

(* C15: for every multi-hop swap the action list is exactly                *)
(* [SWAP_EXACT_IN (0x07), SETTLE_ALL (0x0c), TAKE_ALL (0x0f)], the swap    *)
(* step carries the starting currency, one PathKey per hop, amountIn and   *)
(* minAmountOut, and the starting currency of the swap step is the         *)
(* currency of the settle step.                                            *)
C15_MultiHopActionList ==
  Returned(MultiHopEncoderFns)
    => /\ Payload.actions = <<7, 12, 15>>
       /\ Len(Payload.params) = 3
       /\ DOMAIN SwapStep = {"currencyIn", "path", "amountIn", "amountOutMinimum"}
       /\ Len(SwapStep.path) = Len(args.route) - 1
       /\ SwapStep.amountIn = args.amountIn
       /\ SwapStep.amountOutMinimum = args.minAmountOut
       /\ SwapStep.currencyIn = SettleStep.currency

\* the encoder of part_007 has returned the payload of a route that starts
\* with the native asset
C15_Witness ==
  /\ Returned({"prepareMultiHopSwap_part007"})
  /\ IsNativeAsset(args.route[1])
  /\ Payload.actions = <<7, 12, 15>>
  /\ SwapStep.currencyIn = SettleStep.currency

\* the functions of the single-hop encoder the app uses (singleHopSwap.ts)
AppSingleHopFns == {"executeSingleHopSwap", "prepareSingleHopSwap"}

(* C16: the single-hop encoder of singleHopSwap.ts emits the               *)
(* actions SWAP_EXACT_IN_SINGLE (0x06), SETTLE_ALL (0x0c), TAKE_ALL        *)
(* (0x0f) for every swap.                                                  *)
C16_SwapSettleAllTakeAll ==
  Returned(AppSingleHopFns) => Payload.actions = <<6, 12, 15>>

(* What the code does: the single-hop encoder of singleHopSwap.ts emits    *)
(* the actions SWAP_EXACT_IN_SINGLE (0x06), SETTLE (0x0b), TAKE (0x0e) for *)
(* every swap.                                                             *)
C16_SwapSettleTake ==
  Returned(AppSingleHopFns) => Payload.actions = <<6, 11, 14>>

\* executeSingleHopSwap has returned a payload whose second action is
\* SETTLE and whose third is TAKE
C16_Witness ==
  /\ Returned({"executeSingleHopSwap"})
  /\ Payload.actions[2] = 11
  /\ Payload.actions[3] = 14
  /\ DOMAIN SettleStep = {"currency", "amount", "payerIsUser"}
  /\ DOMAIN TakeStep = {"currency", "recipient", "amount"}

\* the fee tiers in the order the spec gives
TierOrder == <<3000, 500, 10000, 100>>

\* the errors that say no pool was found
NoPoolsErrors ==
  {"No pools found: network has NO V4 pools initialized",
   "No pools found: network has limited V4 pools",
   "No pools found: liquidity may be limited"}

\* the i-th read of the quoter succeeded with amountOut > 0
PositiveAnswer(i) ==
  calls[i].answer.status = "ok" /\ calls[i].answer.amountOut > 0

(***************************************************************************)
(* C17: getBestQuote reads the quoter for the fee tiers 3000, 500, 10000,  *)
(* 100 in this order; a read that succeeds with amountOut > 0 is the last  *)
(* read and its quote is what is returned; after a failed read or a zero   *)
(* amount the next tier is tried, so a call that ends without a positive   *)
(* answer has tried every tier it could read; and the call throws a        *)
(* 'No pools found' error iff no read gave a positive amount.              *)
(***************************************************************************)
C17_FirstPositiveTierReturned ==
  fn = "getBestQuote" =>
    /\ Len(calls) <= Len(TierOrder)
    /\ \A i \in 1..Len(calls) :
         /\ calls[i].request.poolKey.fee = TierOrder[i]
         /\ calls[i].request.exactAmount = args.amountIn
         /\ PositiveAnswer(i) =>
              /\ i = Len(calls)
              /\ pc = "done"
              /\ res.status = "ok"
              /\ res.value.amountOut = calls[i].answer.amountOut
    /\ pc = "done" =>
         /\ res.status \in {"ok", "error"}
         /\ res.status = "error" => res.error \in NoPoolsErrors
         /\ res.status = "error" <=>
              \A i \in 1..Len(calls) : ~PositiveAnswer(i)
         /\ (res.status = "error"
               /\ getQuoterAddress(args.chainId).status = "ok") =>
              Len(calls) = Len(TierOrder)

\* the first tier reverted, the second gave a zero amount, the third a
\* positive amount, which was returned without a read of the fourth
C17_Witness ==
  /\ fn = "getBestQuote"
  /\ pc = "done"
  /\ Len(calls) = 3
  /\ calls[1].answer.status = "reverted"
  /\ calls[2].answer.status = "ok" /\ calls[2].answer.amountOut = 0
  /\ PositiveAnswer(3)
  /\ res.status = "ok"

\* the i-th request is the swap transaction / an approval
IsSwapRequest(i) == calls[i].request.kind = "sendTransaction"

IsApprovalRequest(i) ==
  calls[i].request.kind = "writeContract"
    /\ calls[i].request.functionName = "approve"

\* the wallet has sent the i-th request
Submitted(i) == calls[i].status \in {"sent", "confirmed"}

(***************************************************************************)
(* C18: while the form is connected to a network whose pool availability   *)
(* is 'none' (Base, Sepolia) the swap button is disabled and no swap       *)
(* transaction is submitted, whatever the quote state.                     *)
(***************************************************************************)
C18_NoSwapWhereNoPools ==
  (fn = "SwapForm"
     /\ getNetworkStatus(args.chainId).poolsAvailable = "none") =>
    /\ pc = "call" => isSwapDisabled(args)
    /\ \A i \in 1..Len(calls) : ~(IsSwapRequest(i) /\ Submitted(i))

(***************************************************************************)
(* C19: in useSwap.swap with a non-native input token the swap transaction *)
(* is requested only after the ERC-20 approve and the Permit2 approve have *)
(* been issued, in this order, and both are confirmed; with a native input *)
(* token no approval is issued at all.                                     *)
(***************************************************************************)
C19_SwapAfterApprovalsConfirmed ==
  fn = "SwapForm" =>
    IF isNativeToken(args.tokenIn.address)
      THEN \A i \in 1..Len(calls) : ~IsApprovalRequest(i)
      ELSE \A i \in 1..Len(calls) :
             IsSwapRequest(i) =>
               /\ i = 3
               /\ IsApprovalRequest(1)
               /\ calls[1].request.address = args.tokenIn.address
               /\ IsApprovalRequest(2)
               /\ calls[2].request.address =
                    getPermit2Address(args.tokenIn.chainId).value
               /\ calls[1].status = "confirmed"
               /\ calls[2].status = "confirmed"

(***************************************************************************)
(* C20: for every chain with a token list (1, 11155111, 10, 8453, 42161)   *)
(* the Universal Router address resolves, so preparing a single-hop swap   *)
(* of tokens of such a chain never fails with the unsupported-chain error. *)
(***************************************************************************)
C20_RouterOnEveryTokenChain ==
  (pc = "done"
     /\ fn \in SingleHopFns
     /\ args.chainId \in ChainIds
     /\ args.tokenIn \in getCommonTokens(args.chainId)
     /\ args.tokenOut \in getCommonTokens(args.chainId)) =>
    /\ getUniversalRouterAddress(args.chainId).status = "ok"
    /\ res # Err("Unsupported chain ID")

(***************************************************************************)
(* C21: in the payload of every single-hop intent that                     *)
(* validateSingleHopSwapParams accepts, the currency0 and the currency1 of *)
(* the PoolKey of the swap step are different addresses, the pair of the   *)
(* native asset and the wrapped-native token included.                     *)
(***************************************************************************)
C21_PoolKeyCurrenciesDistinct ==
  (Returned(AppSingleHopFns) /\ validateSingleHopSwapParams(args, now).valid) =>
    SwapStep.poolKey.currency0 # SwapStep.poolKey.currency1

\* n hex digits 0
RECURSIVE HexZeros(_)
HexZeros(n) == IF n = 0 THEN "" ELSE "0" \o HexZeros(n - 1)

\* 2^255 as a uint256 literal: the hex digit 8 and 63 digits 0
TwoToThe255 == "0x8" \o HexZeros(63)

\* a call of part_008's prepareSingleHopSwap in 'use full delta' mode has
\* returned a transaction
ReturnedFullDelta ==
  /\ pc = "done"
  /\ fn = "prepareSingleHopSwap_part008"
  /\ args.useContractBalance
  /\ res.status = "ok"

\* the same intent prepared in explicit-amount mode
ExplicitAmountMode == prepareSingleHopSwap_part008(args.params, FALSE)

(***************************************************************************)
(* C22: with useContractBalance = true the settle step and the take step   *)
(* of part_008's prepareSingleHopSwap both carry the amount 2^255, the     *)
(* swap step carries the caller's amountIn and minAmountOut, and the       *)
(* settle and take currencies, the swap step, the destination and the      *)
(* value are those of the same intent in explicit-amount mode.             *)
(***************************************************************************)
C22_FullDeltaCarriesSentinel ==
  ReturnedFullDelta =>
    /\ SettleStep.amount = TwoToThe255
    /\ TakeStep.amount = TwoToThe255
    /\ SwapStep.amountIn = args.params.amountIn
    /\ SwapStep.amountOutMinimum = args.params.minAmountOut
    /\ ExplicitAmountMode.status = "ok"
    /\ SettleStep.currency = ExplicitAmountMode.value.data.inputs[1].params[2].currency
    /\ TakeStep.currency = ExplicitAmountMode.value.data.inputs[1].params[3].currency
    /\ SwapStep = ExplicitAmountMode.value.data.inputs[1].params[1]
    /\ Payload.actions = ExplicitAmountMode.value.data.inputs[1].actions
    /\ res.value.to = ExplicitAmountMode.value.to
    /\ res.value.value = ExplicitAmountMode.value.value

\* a native-input swap of a positive amount prepared in 'use full delta'
\* mode, whose explicit-mode settle amount is the amount in
C22_Witness ==
  /\ ReturnedFullDelta
  /\ isNativeToken(args.params.tokenIn.address)
  /\ args.params.amountIn > 0
  /\ res.value.value = args.params.amountIn
  /\ ExplicitAmountMode.value.data.inputs[1].params[2].amount = args.params.amountIn

\* the messages of the six checks in the order the spec gives
ValidationMessages ==
  << "Amount in must be greater than 0",
     "Minimum amount out cannot be negative",
     "Multi-hop route must have at least 3 tokens (e.g., ETH -> USDC -> DAI)",
     "Invalid route: tokens must be on same chain and adjacent tokens must be different",
     "Invalid recipient address",
     "Deadline has already passed" >>

\* the checks the multi-hop intent p violates at time t, by their numbers
ViolatedChecks(p, t) ==
  {i \in 1..6 :
     CASE i = 1 -> p.amountIn <= 0
       [] i = 2 -> p.minAmountOut < 0
       [] i = 3 -> Len(p.route) < 3
       [] i = 4 -> InvalidRoute(p.route)
       [] i = 5 -> p.recipient.kind # "address"
       [] i = 6 -> p.deadline <= t}

FirstOf(checks) == CHOOSE i \in checks : \A j \in checks : i <= j

(***************************************************************************)
(* C24: validateMultiHopSwapParams has a message of its own for each of    *)
(* the six checks amountIn, minAmountOut, route length, route validity,    *)
(* recipient address, deadline; it returns valid:true iff none is          *)
(* violated, and otherwise the message of the first violated check in      *)
(* this order.                                                             *)
(***************************************************************************)
C24_FirstViolatedCheckReported ==
  (pc = "done" /\ fn = "validateMultiHopSwapParams") =>
    /\ Cardinality({ValidationMessages[i] : i \in 1..6}) = 6
    /\ res.value.valid <=> ViolatedChecks(args, now) = {}
    /\ ViolatedChecks(args, now) # {} =>
         res.value.error = ValidationMessages[FirstOf(ViolatedChecks(args, now))]

\* the recipient is malformed and the deadline has passed: the recipient is
\* what is reported
C24_Witness ==
  /\ pc = "done"
  /\ fn = "validateMultiHopSwapParams"
  /\ ViolatedChecks(args, now) = {5, 6}
  /\ res.value = [valid |-> FALSE, error |-> "Invalid recipient address"]

(***************************************************************************)
(* C30: the transaction of a multi-hop intent does not depend on the       *)
(* recipient: the same intent with any other well-formed recipient gives   *)
(* the same {to, data, value}, and the take-all step carries the output    *)
(* currency and the minimum amount only.                                   *)
(***************************************************************************)
C30_RecipientNotInMultiHopPayload ==
  Returned(MultiHopFns) =>
    /\ \A r \in Accounts :
         prepareMultiHopSwap([args EXCEPT !.recipient = r], now) = res
    /\ DOMAIN TakeStep = {"currency", "amount"}

\* a multi-hop transaction was returned and another well-formed recipient
\* exists
C30_Witness ==
  /\ Returned(MultiHopFns)
  /\ \E r \in Accounts : r # args.recipient
  /\ TakeStep.amount = args.minAmountOut

\* getBestQuote has returned a quote
Quoted == pc = "done" /\ fn = "getBestQuote" /\ res.status = "ok"

\* the quoter request that produced the returned quote
QuotedRequest == calls[Len(calls)].request

\* the swap that the form and useSwap.swap prepare from the returned quote
\* for the account r
SwapOfQuote(r) ==
  executeSingleHopSwap(
    [tokenIn      |-> args.tokenIn,
     tokenOut     |-> args.tokenOut,
     amountIn     |-> args.amountIn,
     minAmountOut |-> res.value.minAmountOut,
     recipient    |-> r,
     deadline     |-> calculateDeadline(20, now),
     chainId      |-> args.chainId])

(***************************************************************************)
(* C26: the fee tier and the tick spacing of the PoolKey in the swap step  *)
(* of a single-hop swap are those of the fee tier at which getBestQuote    *)
(* obtained the quote whose minAmountOut the swap uses.                    *)
(***************************************************************************)
C26_SwapUsesQuotedPool ==
  Quoted =>
    \A r \in Accounts :
      SwapOfQuote(r).status = "ok" =>
        /\ SwapOfQuote(r).value.data.inputs[1].params[1].poolKey.fee
             = QuotedRequest.poolKey.fee
        /\ SwapOfQuote(r).value.data.inputs[1].params[1].poolKey.tickSpacing
             = QuotedRequest.poolKey.tickSpacing

\* the single-hop swap of the pair that is being quoted, for the account r
SwapOfQuotedPair(r) ==
  executeSingleHopSwap(
    [tokenIn      |-> args.tokenIn,
     tokenOut     |-> args.tokenOut,
     amountIn     |-> args.amountIn,
     minAmountOut |-> 0,
     recipient    |-> r,
     deadline     |-> calculateDeadline(20, now),
     chainId      |-> args.chainId])

\* the currencies of the path keys of a path
PathCurrencies(path) == [i \in 1..Len(path) |-> path[i].intermediateCurrency]

(***************************************************************************)
(* C27: the PoolKey currencies and the direction sent to the quoter for a  *)
(* token pair are those encoded in the swap step of the single-hop swap of *)
(* the pair, and the starting currency and the path currencies sent to the *)
(* quoter for a route are those of the swap step of the multi-hop swap of  *)
(* the route, also when a token is the native asset.                       *)
(***************************************************************************)
C27_QuoteAndSwapSameCurrencies ==
  /\ (fn = "getBestQuote" /\ Len(calls) > 0) =>
       \A r \in Accounts :
         SwapOfQuotedPair(r).status = "ok" =>
           /\ SwapOfQuotedPair(r).value.data.inputs[1].params[1].poolKey.currency0
                = calls[1].request.poolKey.currency0
           /\ SwapOfQuotedPair(r).value.data.inputs[1].params[1].poolKey.currency1
                = calls[1].request.poolKey.currency1
           /\ SwapOfQuotedPair(r).value.data.inputs[1].params[1].zeroForOne
                = calls[1].request.zeroForOne
  /\ (Returned(MultiHopFns)
        /\ quoteExactInput(args.route, args.amountIn).path.status = "ok") =>
       /\ SwapStep.currencyIn
            = quoteExactInput(args.route, args.amountIn).exactCurrency
       /\ PathCurrencies(SwapStep.path)
            = PathCurrencies(quoteExactInput(args.route, args.amountIn).path.value)

(***************************************************************************)
(* C25: for every quoted amountOut >= 0 and every slippage setting from    *)
(* 0 % to 100 % of bps whole basis points, calculateMinAmountOut returns   *)
(* amountOut - floor(amountOut * bps / 10000), which is at least 0 and at  *)
(* most amountOut.                                                         *)
(***************************************************************************)
C25_MinAmountOutExact ==
  (pc = "done" /\ fn = "calculateMinAmountOut") =>
    /\ res.value =
         args.amountOut - (args.amountOut * args.slippagePercent) \div 10000
    /\ res.value >= 0
    /\ res.value <= args.amountOut

-----------------------------------------------------------------------------
(* Claims about the hooks, checked under HookSpec. *)

\* one of the four preconditions of swap fails for the parameters
FailsPrecondition(params, wallet) ==
  \/ wallet.account = NoAccount
  \/ params.tokenIn = NoToken
  \/ params.tokenOut = NoToken
  \/ params.amountIn <= 0
  \/ wallet.chain # params.chainId

\* C23: useSwap.swap makes no request to the wallet (no approval, no swap)
\* when the wallet is not connected, a token is missing, amountIn <= 0 or
\* the wallet's chain differs from chainId, and the invocation leaves the
\* hook with error set, txHash null and its own loading flag false.
C23_NoRequestWhenPreconditionFails ==
  /\ [](fn = "useSwap" =>
          \A i \in 1..Len(inflight) :
            FailsPrecondition(inflight[i].params, args) =>
              inflight[i].pc = "done" /\ inflight[i].calls = << >>)
  /\ [][(/\ fn = "useSwap"
         /\ Len(inflight') = Len(inflight) + 1
         /\ FailsPrecondition(inflight'[Len(inflight')].params, args))
        => /\ hook'.error.status = "error"
           /\ hook'.txHash = NoHash
           /\ hook'.isLoading = FALSE]_vars

\* a connected wallet on another chain than the one of a swap that is
\* otherwise in order, and the hook as that invocation left it
C23_Witness ==
  /\ fn = "useSwap"
  /\ args.account # NoAccount
  /\ Len(inflight) = 1
  /\ inflight[1].params.tokenIn = MAINNET_TOKENS.ETH
  /\ inflight[1].params.amountIn > 0
  /\ args.chain # inflight[1].params.chainId
  /\ inflight[1].calls = << >>
  /\ hook = [txHash |-> NoHash, isLoading |-> FALSE,
             error |-> Err("Please switch to the correct network")]

\* C29: in useSwap, once no invocation of swap is in flight the loading
\* flag is false and error and txHash are not both non-null.
C29_ErrorAndHashOfOneInvocation ==
  (fn = "useSwap" /\ \A i \in 1..Len(inflight) : inflight[i].pc = "done")
    => /\ hook.isLoading = FALSE
       /\ ~(hook.error # NoError /\ hook.txHash # NoHash)

\* C28: in useSwapQuote, when no fetch is in flight and a quote is held, the
\* quote is the answer to the fetch begun last, and that fetch was begun for
\* the current inputs.
C28_HeldQuoteIsForCurrentInputs ==
  (/\ fn = "useSwapQuote"
   /\ \A i \in 1..Len(inflight) : inflight[i].result # Pending
   /\ hook.quote # NoQuote)
    => /\ Len(inflight) > 0
       /\ inflight[Len(inflight)].inputs = args
       /\ inflight[Len(inflight)].result = Ok(hook.quote)

====
